---- MODULE Spec2Model ----
(***************************************************************************)
(* A model of src/main.py (the dependency-package microservice): the name  *)
(* normalizer, the identity resolution engine (get_component,              *)
(* new_component_version and the functions it calls) and the origin        *)
(* resolver (getCommitFromPurl, get_commit_sha).                           *)
(*                                                                         *)
(* Strings are sequences of one-character strings, so that replace, split  *)
(* and rstrip are computed character by character as Python computes them. *)
(* Python's None, where a string is optional, is the value None below.     *)
(***************************************************************************)
EXTENDS Integers, Sequences, FiniteSets, TLC

\* ------------------------------------------------------------------ bounds

\* The longest string the name-normalizer specification draws.
MaxLen == 3
\* The number of identity-resolution invocations in one behaviour.
MaxCalls == 2
\* The longest component_items list handed to new_component_item.
MaxItems == 1

\* ----------------------------------------------------------------- strings

None == <<"None">>

\* The characters clean_name rewrites, the separator ';', and ordinary ones.
Rewritten == {".", "-", "/", "+", ":", "~", "(", ")", "#", "@"}
CleanAlphabet == Rewritten \cup {"a", "_", ";"}

\* All strings over alphabet A of length at most n.
StringsUpTo(A, n) == UNION {[1..k -> A] : k \in 0..n}

\* str.replace(old, new) for a one-character old: every occurrence, left to right.
Replace(s, old, new) ==
    LET F[i \in 0..Len(s)] ==
            IF i = 0 THEN <<>>
            ELSE F[i-1] \o (IF s[i] = old THEN new ELSE <<s[i]>>)
    IN F[Len(s)]

\* clean_name: None is returned as it is; the replacements run in source order.
clean_name(name) ==
    IF name = None THEN None
    ELSE LET n1  == Replace(name, ".", <<"_">>)
             n2  == Replace(n1, "-", <<"_">>)
             n3  == Replace(n2, "/", <<".">>)
             n4  == Replace(n3, "+", <<"_">>)
             n5  == Replace(n4, ":", <<"_">>)
             n6  == Replace(n5, "~", <<"_">>)
             n7  == Replace(n6, "(", <<>>)
             n8  == Replace(n7, ")", <<>>)
             n9  == Replace(n8, "#", <<"_">>)
             n10 == Replace(n9, "@", <<>>)
         IN n10

\* "." in s
HasDot(s) == \E i \in 1..Len(s) : s[i] = "."

\* s.split(".")[-1]: what follows the last '.', the whole string when there is none.
LastSegment(s) ==
    LET dots == {i \in 1..Len(s) : s[i] = "."}
        last == IF dots = {} THEN 0 ELSE CHOOSE i \in dots : \A j \in dots : j <= i
    IN SubSeq(s, last + 1, Len(s))

\* s.rstrip(";")
RStripSemi(s) ==
    LET keep == {i \in 1..Len(s) : s[i] # ";"}
        last == IF keep = {} THEN 0 ELSE CHOOSE i \in keep : \A j \in keep : j <= i
    IN SubSeq(s, 1, last)

\* is_empty: None, "" or only white space.
is_empty(my_string) ==
    \/ my_string = None
    \/ \A i \in 1..Len(my_string) : my_string[i] = " "

\* compvariant/compversion "is not None and != ''"
NonEmpty(s) == s # None /\ s # <<>>

\* ------------------------------------------------------- name normalization

\* The promotion without clearing the version.
Promote_keeps_version(compvariant, compversion) ==
    IF (compvariant = <<>> \/ compvariant = None) /\ compversion # None /\ compversion # <<>>
    THEN [variant |-> compversion, version |-> compversion]
    ELSE [variant |-> compvariant, version |-> compversion]

\* The promotion every entry point applies after clean_name: a lone version
\* becomes the variant.
Promote(compvariant, compversion) ==
    IF (compvariant = <<>> \/ compvariant = None) /\ compversion # None /\ compversion # <<>>
    THEN [variant |-> compversion, version |-> None]
    ELSE [variant |-> compvariant, version |-> compversion]

\* The first lines of get_component, new_component_version, new_docker_component,
\* new_file_component and update_name: clean both, then promote.
Normalize(compvariant, compversion) ==
    Promote(clean_name(compvariant), clean_name(compversion))

\* name[;variant[;version]] as get_component, new_component_version and update_name
\* build it from a (short or qualified) name.
Qualified(name, compvariant, compversion) ==
    IF NonEmpty(compvariant) /\ NonEmpty(compversion)
    THEN name \o <<";">> \o compvariant \o <<";">> \o compversion
    ELSE IF NonEmpty(compvariant)
    THEN name \o <<";">> \o compvariant
    ELSE name

\* short_compname: "" unless the name holds a '.', then its last segment.
ShortCompname(compname) == IF HasDot(compname) THEN LastSegment(compname) ELSE <<>>

\* ------------------------------------------------------------------- state

VARIABLES
    catalog,      \* the remote catalog: a set of [id, dom, name, parent]
    pc,           \* where the current new_component_version invocation stands
    args,         \* its arguments
    loc,          \* its local variables (and those of the functions it calls)
    calls,        \* the catalog calls it has issued so far, in order
    ncalls,       \* invocations started
    baseCreates,  \* per component family, the create-base calls issued so far
    input,        \* the arguments a function is applied to (function specifications)
    output,       \* what it returned, one entry per application
    store,        \* the relational store, committed: dm_componentdeps and dm_vulns
    job,          \* the running save_components_data or update_vulns call
    web,          \* the service: globals dhurl and cookies, requests, scan threads
    proc          \* the process: its working directory, the probes running in it

engineVars == <<catalog, pc, args, loc, calls, ncalls, baseCreates>>
funVars == <<input, output>>
storeVars == <<store, job>>
webVars == <<web, proc>>
vars == <<engineVars, funVars, storeVars, webVars>>

\* The service as the module leaves it when loaded: dhurl = "", cookies = {},
\* no request received, no thread started, the process in the directory it was
\* started in.
NoUrl == [base |-> "", https |-> FALSE]
NoCookies == ""
OrigDir == "orig"
WebInit ==
    /\ web = [dhurl |-> NoUrl, cookies |-> NoCookies, reqs |-> <<>>, scans |-> <<>>,
              log |-> {}]
    /\ proc = [cwd |-> OrigDir, dirs |-> {OrigDir}, probes |-> <<>>]

\* The store before the first upload, no storage call running.
StoreInit ==
    /\ store = [deps |-> {}, vulns |-> {}]
    /\ job = [op |-> "idle"]

\* ----------------------------------------------------------- the catalog
\* The remote catalog at its interface: what the engine's URLs ask of it and
\* the JSON the engine reads back.

CatalogFull(c) == IF c.dom = <<>> THEN c.name ELSE c.dom \o <<".">> \o c.name

\* The domain of a qualified name: what precedes its last '.'.
DomainOf(q) ==
    LET dots == {i \in 1..Len(q) : q[i] = "."}
        last == IF dots = {} THEN 0 ELSE CHOOSE i \in dots : \A j \in dots : j <= i
    IN IF last = 0 THEN <<>> ELSE SubSeq(q, 1, last - 1)

CatalogIds == {c.id : c \in catalog}
CatalogById(i) == CHOOSE c \in catalog : c.id = i
CatalogNewId == Cardinality(catalog) + 1

\* c and every component derived from it.
RECURSIVE Lineage(_, _)
Lineage(S, n) ==
    IF n = 0 THEN S
    ELSE Lineage(S \cup {c \in catalog : c.parent \in {d.id : d \in S}}, n - 1)

\* A set of components as the "versions" collection: [id, name], by ascending id.
RECURSIVE VersionsOf(_)
VersionsOf(S) ==
    IF S = {} THEN <<>>
    ELSE LET c == CHOOSE x \in S : \A y \in S : x.id <= y.id
         IN <<[id |-> c.id, name |-> c.name]>> \o VersionsOf(S \ {c})

JsonNone == [kind |-> "none", success |-> FALSE, id |-> 0, name |-> <<>>, versions |-> <<>>]
JsonMiss == [kind |-> "json", success |-> FALSE, id |-> 0, name |-> <<>>, versions |-> <<>>]
JsonHit(i, n, v) == [kind |-> "json", success |-> TRUE, id |-> i, name |-> n, versions |-> v]

\* What requests.get can come back with: an exception, no response, a status and a body.
HttpFailures ==
    { [kind |-> "conn_error", status |-> 0,   json |-> JsonNone],
      [kind |-> "exception",  status |-> 0,   json |-> JsonNone],
      [kind |-> "none",       status |-> 0,   json |-> JsonNone],
      [kind |-> "status",     status |-> 500, json |-> JsonMiss],
      [kind |-> "status",     status |-> 200, json |-> JsonNone] }
HttpOk(j) == [kind |-> "status", status |-> 200, json |-> j]

\* GET /dmadminweb/API/component/?name=<component>&latest=Y: the component of
\* that qualified name, as it is or as the latest version of its lineage with the
\* lineage as "versions"; success = false when there is none.
CatalogLookup(component) ==
    LET found == {c \in catalog : CatalogFull(c) = component}
    IN IF found = {} THEN {HttpOk(JsonMiss)}
       ELSE UNION { LET lin == Lineage({c}, Cardinality(catalog))
                        top == CHOOSE d \in lin : \A e \in lin : e.id <= d.id
                    IN { HttpOk(JsonHit(c.id, c.name, VersionsOf(lin \ {c}))),
                         HttpOk(JsonHit(top.id, top.name, VersionsOf(lin))) }
                  : c \in found }

\* GET /dmadminweb/API/new/compver/?name=<q>: a new base component, unless the
\* name is taken (names are unique within a domain).
CatalogCreateBase(q) ==
    IF \E c \in catalog : CatalogFull(c) = q
    THEN [catalog |-> catalog, id |-> 0]
    ELSE [catalog |-> catalog \cup
                      {[id |-> CatalogNewId, dom |-> DomainOf(q),
                        name |-> LastSegment(q), parent |-> 0]},
          id |-> CatalogNewId]

\* GET /dmadminweb/API/new/compver/<parent>: a new version derived from parent,
\* under a name of the catalog's choosing until it is renamed.
CatalogCreateVersion(parent) ==
    IF parent \notin CatalogIds
    THEN [catalog |-> catalog, id |-> 0]
    ELSE [catalog |-> catalog \cup
                      {[id |-> CatalogNewId, dom |-> CatalogById(parent).dom,
                        name |-> <<"$", ToString(CatalogNewId)>>, parent |-> parent]},
          id |-> CatalogNewId]

\* GET /dmadminweb/UpdateSummaryData?objtype=23&id=<id>&change_1=<name>
CatalogRename(id, name) ==
    IF id \notin CatalogIds THEN catalog
    ELSE LET c == CatalogById(id)
         IN IF \E d \in catalog : d.id # id /\ d.dom = c.dom /\ d.name = name
            THEN catalog
            ELSE (catalog \ {c}) \cup {[c EXCEPT !.name = name]}

\* ------------------------------------------------------- the catalog client

\* get_json without its status check.
get_json_any_status(res) ==
    IF res.kind = "status" THEN res.json ELSE JsonNone

\* get_json: the parsed body of a 200 response; None for an exception of any
\* kind (requests' or the body's parse), no response, or another status.
get_json(res) ==
    IF res.kind = "status" /\ res.status = 200 THEN res.json ELSE JsonNone

\* The tail of get_component with a scan of "versions" that keeps the last match.
ComponentResult_last_match(data, check_compname) ==
    IF data.kind = "none" THEN [exc |-> FALSE, id |-> -1, name |-> <<>>]
    ELSE IF data.kind = "other" THEN [exc |-> TRUE, id |-> 0, name |-> <<>>]
    ELSE IF data.success
    THEN LET vers == data.versions
             hits == {i \in 1..Len(vers) : vers[i].name = check_compname}
             last == CHOOSE i \in hits : \A j \in hits : i >= j
         IN IF data.name # check_compname /\ hits # {}
            THEN [exc |-> FALSE, id |-> vers[last].id, name |-> vers[last].name]
            ELSE [exc |-> FALSE, id |-> data.id, name |-> data.name]
    ELSE [exc |-> FALSE, id |-> -1, name |-> <<>>]

\* The tail of get_component (from "data = get_json(...)"): [-1, ""] for no data
\* or success = false, else the catalog's id and name, replaced by the first entry
\* of "versions" named check_compname when the catalog's name is another.
\* exc: an exception left the function (a body that parses but has no "success").
ComponentResult(data, check_compname) ==
    IF data.kind = "none" THEN [exc |-> FALSE, id |-> -1, name |-> <<>>]
    ELSE IF data.kind = "other" THEN [exc |-> TRUE, id |-> 0, name |-> <<>>]
    ELSE IF data.success
    THEN LET vers == data.versions
             hits == {i \in 1..Len(vers) : vers[i].name = check_compname}
             first == CHOOSE i \in hits : \A j \in hits : i <= j
         IN IF data.name # check_compname /\ hits # {}
            THEN [exc |-> FALSE, id |-> vers[first].id, name |-> vers[first].name]
            ELSE [exc |-> FALSE, id |-> data.id, name |-> data.name]
    ELSE [exc |-> FALSE, id |-> -1, name |-> <<>>]

\* The head of get_component: the name it asks the catalog for ...
LookupName(compname, compvariant, compversion) ==
    LET n == Normalize(compvariant, compversion)
    IN Qualified(compname, n.variant, n.version)

\* ... and the name it expects back.
LookupCheckName(compname, compvariant, compversion) ==
    LET n == Normalize(compvariant, compversion)
    IN Qualified(ShortCompname(compname), n.variant, n.version)

\* get_component, given what the HTTP request came back with.
get_component(res, compname, compvariant, compversion) ==
    ComponentResult(get_json(res), LookupCheckName(compname, compvariant, compversion))

\* --------------------------------------------------------------- call log

Call(op, comp, name, res, ok) ==
    [op |-> op, comp |-> comp, name |-> name, res |-> res, ok |-> ok,
     ypos |-> 0, removeall |-> FALSE, fn |-> 0, tn |-> 0]
ItemCall(comp, name, res, ok, ypos, removeall) ==
    [op |-> "item_create", comp |-> comp, name |-> name, res |-> res, ok |-> ok,
     ypos |-> ypos, removeall |-> removeall, fn |-> 0, tn |-> 0]
LinkCall(comp, fn, tn) ==
    [op |-> "item_link", comp |-> comp, name |-> <<>>, res |-> 0, ok |-> TRUE,
     ypos |-> 0, removeall |-> FALSE, fn |-> fn, tn |-> tn]
SetAttrsCall(comp) ==
    [op |-> "set_attrs", comp |-> comp, name |-> <<>>, res |-> 0, ok |-> TRUE,
     ypos |-> 100, removeall |-> TRUE, fn |-> 0, tn |-> 0]

CreateOps == {"create_base", "create_version"}
WriteOps == CreateOps \cup {"rename", "set_attrs", "item_create", "item_link"}

\* ------------------------------------------------------------ inputs

AcmeWidget == <<"a","c","m","e",".","w","i","d","g","e","t">>
Widget == <<"w","i","d","g","e","t">>
Compnames == {AcmeWidget, Widget}
V1 == <<"v","1">>
AslashB == <<"a","/","b">>
V200 == <<"2","_","0","_","0">>
\* (variant, version): neither, a lone version, a lone variant, a variant that
\* clean_name rewrites, both.
Qualifiers == {<<(<<>>), (<<>>)>>, <<(<<>>), V200>>, <<V1, (<<>>)>>, <<AslashB, (<<>>)>>, <<V1, V200>>}
NoItems == <<"None">>
ItemLists == {NoItems, [i \in 1..MaxItems |-> ToString(i)]}

Invocations ==
    { a \in [compname : Compnames, compvariant : {q[1] : q \in Qualifiers},
             compversion : {q[2] : q \in Qualifiers},
             kind : {"docker", "file"}, component_items : ItemLists,
             compautoinc : {"None", "Y"}] :
        /\ <<a.compvariant, a.compversion>> \in Qualifiers
        /\ a.kind = "docker" => a.component_items = NoItems }

\* ------------------------------------------------------ new_component_item

YposStart == 100
YposStep == 100

\* The id the catalog gives the i-th item of the invocation's walk-th item walk.
ItemId(walk, i) == 10 * walk + i

\* The loop of new_component_item over component_items from entry i on: one
\* item-create call per entry, removeall on the first, a link call from the item
\* created before (parent_item) to each item created after it. outs[i]: the
\* call came back with a result carrying an id ("ok"), with a result without
\* an id ("noid": workid is the default -1), or without a result ("fail").
RECURSIVE ItemWalk(_, _, _, _, _, _)
ItemWalk(compid, component_items, outs, i, parent_item, walk) ==
    IF i > Len(component_items) THEN <<>>
    ELSE LET ok == outs[i] # "fail"
             workid == IF outs[i] = "ok" THEN ItemId(walk, i) ELSE -1
             create == ItemCall(compid, <<component_items[i]>>, IF ok THEN workid ELSE 0, ok,
                                YposStart + YposStep * (i - 1), i = 1)
             link == IF ok /\ parent_item > 0
                     THEN <<LinkCall(compid, parent_item, workid)>> ELSE <<>>
         IN <<create>> \o link
            \o ItemWalk(compid, component_items, outs, i + 1,
                        IF ok THEN workid ELSE parent_item, walk)

\* new_component_item: the calls it issues; outs[i] says whether the i-th
\* item-create call came back with a result.
new_component_item(compid, kind, component_items, outs, walk) ==
    IF kind = "docker" \/ component_items = NoItems
    THEN <<SetAttrsCall(compid)>>
    ELSE ItemWalk(compid, component_items, outs, 1, -1, walk)

ItemOutcomes(kind, component_items) ==
    IF kind = "docker" \/ component_items = NoItems THEN {<<>>}
    ELSE [1..Len(component_items) -> {"fail", "ok", "noid"}]

\* ------------------------------------------------- new_component_version

LocInit ==
    [compname |-> <<>>, compvariant |-> <<>>, compversion |-> <<>>, stage |-> 0,
     latest_compid |-> -1, found_compname |-> <<>>, compid |-> -1,
     fvariant |-> <<>>, fversion |-> <<>>, parent_compid |-> -1, held |-> 0]

\* The expected check-name new_component_version computes after its lookups.
CheckCompname(l) == Qualified(ShortCompname(l.compname), l.compvariant, l.compversion)

\* The branch that derives a version on a miss, from no parent.
Decide_miss_creates_version(latest_compid, found_compname, check_compname, compautoinc) ==
    IF latest_compid < 0 THEN "create_version"
    ELSE IF compautoinc = "None"
    THEN IF found_compname = <<>> \/ found_compname # check_compname
         THEN "create_version"
         ELSE IF latest_compid > 0 THEN "items_outer" ELSE "done"
    ELSE "done"

\* The branch without the comparison of names: a hit always gets a new version.
Decide_ignores_name(latest_compid, found_compname, check_compname, compautoinc) ==
    IF latest_compid < 0 THEN "create_base"
    ELSE IF compautoinc = "None" THEN "create_version"
    ELSE "done"

\* The branch that creates nothing on a miss.
Decide_miss_creates_nothing(latest_compid, found_compname, check_compname, compautoinc) ==
    IF latest_compid < 0 THEN "done"
    ELSE IF compautoinc = "None"
    THEN IF found_compname = <<>> \/ found_compname # check_compname
         THEN "create_version"
         ELSE IF latest_compid > 0 THEN "items_outer" ELSE "done"
    ELSE "done"

\* What new_component_version does with the lookups' result: the branch taken.
Decide(latest_compid, found_compname, check_compname, compautoinc) ==
    IF latest_compid < 0 THEN "create_base"
    ELSE IF compautoinc = "None"
    THEN IF found_compname = <<>> \/ found_compname # check_compname
         THEN "create_version"
         ELSE IF latest_compid > 0 THEN "items_outer" ELSE "done"
    ELSE "done"

\* The id of the catalog component that is already the invocation's exact
\* qualified target, 0 when there is none (kept for the properties only).
HeldTarget(a) ==
    LET n == Normalize(a.compvariant, a.compversion)
        target == LookupName(RStripSemi(a.compname), RStripSemi(n.variant),
                             IF n.version # None THEN RStripSemi(n.version) ELSE None)
        found == {c \in catalog : CatalogFull(c) = target}
    IN IF found = {} THEN 0 ELSE (CHOOSE c \in found : TRUE).id

\* Entry: clean and promote variant and version, strip trailing ';'.
\* (The repository's callers pass strings for both: create_compver.)
new_component_version ==
    /\ pc \in {"idle", "done"}
    /\ ncalls < MaxCalls
    /\ \E a \in Invocations :
          LET n == Normalize(a.compvariant, a.compversion)
          IN /\ args' = a
             /\ loc' = [LocInit EXCEPT
                          !.compname = RStripSemi(a.compname),
                          !.compvariant = RStripSemi(n.variant),
                          !.compversion = IF n.version # None THEN RStripSemi(n.version)
                                          ELSE None,
                          !.stage = 1,
                          !.held = HeldTarget(a)]
    /\ pc' = "lookup"
    /\ calls' = <<>>
    /\ ncalls' = ncalls + 1
    /\ UNCHANGED <<funVars, storeVars, webVars, catalog, baseCreates>>

\* The arguments of a chain that repeats the most specific lookup.
LookupArgs_most_specific(l) ==
    [compname |-> l.compname, compvariant |-> l.compvariant, compversion |-> l.compversion]

\* The arguments of the stage-th get_component call: (name, variant, version),
\* (name, variant, None), (name, "", None).
LookupArgs(l) ==
    [compname |-> l.compname,
     compvariant |-> IF l.stage = 3 THEN <<>> ELSE l.compvariant,
     compversion |-> IF l.stage = 1 THEN l.compversion ELSE None]

\* One get_component call of the fallback chain; after the last one, the branch.
lookup_latest ==
    /\ pc = "lookup"
    /\ LET g == LookupArgs(loc)
           component == LookupName(g.compname, g.compvariant, g.compversion)
       IN \E res \in CatalogLookup(component) \cup HttpFailures :
            LET data == get_component(res, g.compname, g.compvariant, g.compversion)
            IN /\ calls' = Append(calls, Call("lookup", 0, component, data.id,
                                              get_json(res).kind # "none"))
               /\ IF data.id = -1 /\ loc.stage < 3
                  THEN /\ loc' = [loc EXCEPT !.stage = loc.stage + 1]
                       /\ pc' = "lookup"
                  ELSE /\ loc' = [loc EXCEPT !.latest_compid = data.id,
                                             !.found_compname = data.name,
                                             !.compid = data.id,
                                             !.compvariant = IF @ = None THEN <<>> ELSE @,
                                             !.compversion = IF @ = None THEN <<>> ELSE @]
                       /\ pc' = Decide(data.id, data.name, CheckCompname(loc),
                                       args.compautoinc)
    /\ UNCHANGED <<funVars, storeVars, webVars, catalog, args, ncalls, baseCreates>>

\* new_docker_component / new_file_component with parent_compid = -1: clean and
\* promote again, then the create-base call; compid stays 0 without a response
\* or an id.
new_component_base ==
    /\ pc = "create_base"
    /\ LET n == Normalize(loc.compvariant, loc.compversion)
           q == IF is_empty(n.variant) THEN loc.compname
                ELSE loc.compname \o <<";">> \o n.variant
           made == CatalogCreateBase(q)
       IN \E responded \in BOOLEAN :
            LET compid == IF responded THEN made.id ELSE 0
            IN /\ catalog' = IF responded THEN made.catalog ELSE catalog
               /\ calls' = Append(calls, Call("create_base", -1, q, compid, responded))
               /\ loc' = [loc EXCEPT !.compid = compid, !.parent_compid = -1,
                                     !.fvariant = n.variant, !.fversion = n.version]
    /\ baseCreates' = [baseCreates EXCEPT ![loc.compname] = @ + 1]
    /\ pc' = "items_inner"
    /\ UNCHANGED <<funVars, storeVars, webVars, args, ncalls>>

\* new_docker_component / new_file_component with a parent: clean and promote
\* again, then the create-version-from-parent call.
new_component_child ==
    /\ pc = "create_version"
    /\ LET n == Normalize(loc.compvariant, loc.compversion)
           made == CatalogCreateVersion(loc.compid)
       IN \E responded \in BOOLEAN :
            LET compid == IF responded THEN made.id ELSE 0
            IN /\ catalog' = IF responded THEN made.catalog ELSE catalog
               /\ calls' = Append(calls, Call("create_version", loc.compid, <<>>, compid,
                                              responded))
               /\ loc' = [loc EXCEPT !.compid = compid, !.parent_compid = loc.compid,
                                     !.fvariant = n.variant, !.fversion = n.version]
    /\ pc' = "rename"
    /\ UNCHANGED <<funVars, storeVars, webVars, args, ncalls, baseCreates>>

\* The name update_name renames to: the name's last segment (the whole name
\* when it has no '.'), with the variant and version cleaned and promoted again.
UpdateNameTarget(compname, compvariant, compversion) ==
    LET n == Normalize(compvariant, compversion)
        short == IF HasDot(compname) THEN LastSegment(compname) ELSE compname
    IN Qualified(short, n.variant, n.version)

\* update_name, called by new_*_component right after the create-from-parent call.
update_name ==
    /\ pc = "rename"
    /\ LET name == UpdateNameTarget(loc.compname, loc.fvariant, loc.fversion)
       IN \E responded \in BOOLEAN :
            /\ catalog' = IF responded THEN CatalogRename(loc.compid, name) ELSE catalog
            /\ calls' = Append(calls, Call("rename", loc.compid, name, 0, responded))
    /\ pc' = "items_inner"
    /\ UNCHANGED <<funVars, storeVars, webVars, args, loc, ncalls, baseCreates>>

\* new_component_item as new_docker_component / new_file_component call it last:
\* with no item list for a base component or docker kind.
new_component_item_inner ==
    /\ pc = "items_inner"
    /\ LET items == IF loc.parent_compid < 0 \/ args.kind = "docker" THEN NoItems
                    ELSE args.component_items
       IN \E outs \in ItemOutcomes(args.kind, items) :
            calls' = calls \o new_component_item(loc.compid, args.kind, items, outs, 1)
    /\ pc' = IF loc.parent_compid >= 0 /\ loc.compid > 0 THEN "items_outer" ELSE "done"
    /\ UNCHANGED <<funVars, storeVars, webVars, catalog, args, loc, ncalls, baseCreates>>

\* new_component_item as new_component_version calls it when compid > 0 in the
\* branch of a lookup hit with no auto-increment.
new_component_item_outer ==
    /\ pc = "items_outer"
    /\ LET items == IF args.kind = "docker" THEN NoItems ELSE args.component_items
       IN \E outs \in ItemOutcomes(args.kind, items) :
            calls' = calls \o new_component_item(loc.compid, args.kind, items, outs, 2)
    /\ pc' = "done"
    /\ UNCHANGED <<funVars, storeVars, webVars, catalog, args, loc, ncalls, baseCreates>>

EngineInit ==
    /\ catalog = {}
    /\ pc = "idle"
    /\ args = CHOOSE a \in Invocations : TRUE
    /\ loc = LocInit
    /\ calls = <<>>
    /\ ncalls = 0
    /\ baseCreates = [f \in Compnames |-> 0]

Init ==
    /\ EngineInit
    /\ WebInit
    /\ StoreInit
    /\ input = <<>>
    /\ output = <<>>

Next ==
    \/ new_component_version
    \/ lookup_latest
    \/ new_component_base
    \/ new_component_child
    \/ update_name
    \/ new_component_item_inner
    \/ new_component_item_outer

Spec == Init /\ [][Next]_vars

\* ------------------------------------------- properties of the engine

CallsOf(ops) == {i \in DOMAIN calls : calls[i].op \in ops}
Lookups == CallsOf({"lookup"})
\* Every lookup of the invocation was answered by the catalog (no transport failure).
LookupsAnswered == \A i \in Lookups : calls[i].ok
\* The invocation ended on a lookup hit.
LookupHit == loc.latest_compid >= 0

\* C1: with auto_increment = None, when the catalog already holds the exact
\* qualified target and answers the lookups, new_component_version returns that
\* component's id and issues no create-base and no create-version call.
C1_ExactTargetReused ==
    (pc = "done" /\ args.compautoinc = "None" /\ loc.held > 0 /\ LookupsAnswered)
        => (loc.compid = loc.held /\ CallsOf(CreateOps) = {})

\* C2 as claimed: on a lookup hit whose name equals the check-name, or with
\* auto_increment set, the invocation issues no catalog write of any kind.
C2_ReuseWithoutAnyWrite ==
    (pc = "done" /\ LookupHit
        /\ (loc.found_compname = CheckCompname(loc) \/ args.compautoinc # "None"))
        => CallsOf(WriteOps) = {}

\* The calls of a single new_component_item on component id, and nothing else,
\* make up the writes of the invocation.
OnlyItemsOf(id) ==
    /\ CallsOf(WriteOps) # {}
    /\ \A i \in CallsOf(WriteOps) :
          calls[i].op \in {"set_attrs", "item_create", "item_link"} /\ calls[i].comp = id
    /\ Cardinality(CallsOf({"set_attrs"})) <= 1
    /\ Cardinality(CallsOf({"item_create"})) <= MaxItems + 1

\* C2 as amended: on a lookup hit whose non-empty name equals the check-name, or
\* with auto_increment set, no create and no rename call is issued and the found
\* id is returned; with auto_increment set there is no write at all; with
\* auto_increment = None and a positive id the item structure of the found
\* component is written again (one new_component_item), and nothing else.
C2_ReuseWithoutCreateOrRename ==
    (pc = "done" /\ LookupHit
        /\ (   (loc.found_compname # <<>> /\ loc.found_compname = CheckCompname(loc))
            \/ args.compautoinc # "None"))
        => /\ CallsOf(CreateOps \cup {"rename"}) = {}
           /\ loc.compid = loc.latest_compid
           /\ args.compautoinc # "None" => CallsOf(WriteOps) = {}
           /\ (args.compautoinc = "None" /\ loc.compid > 0) => OnlyItemsOf(loc.compid)

C2_Witness ==
    /\ pc = "done" /\ LookupHit /\ args.compautoinc = "None"
    /\ loc.found_compname = CheckCompname(loc)
    /\ CallsOf({"set_attrs"}) # {}

\* C3: every rename call targets an id that a create call of the same invocation
\* returned before it; after a failed create-version call there is no rename.
C3_RenameOnlyAfterCreate ==
    \A i \in CallsOf({"rename"}) :
        \E j \in CallsOf(CreateOps) : j < i /\ calls[j].res > 0 /\ calls[j].res = calls[i].comp

\* C4: when the create call gets no response, it is issued once and
\* new_component_version returns -1.
C4_FailedCreateReturnsMinusOne ==
    (pc = "done" /\ \E i \in CallsOf(CreateOps) : ~calls[i].ok)
        => (loc.compid = -1 /\ Cardinality(CallsOf(CreateOps)) = 1)

\* C8: for ("acme.widget", "", "2_0_0") with no lookup hit at any specificity,
\* exactly one create-base call and no create-version call is issued.
C8_AcmeWidgetOneBase ==
    (pc = "done" /\ args.compname = AcmeWidget /\ args.compvariant = <<>>
        /\ args.compversion = V200 /\ ~LookupHit)
        => /\ Cardinality(CallsOf({"create_base"})) = 1
           /\ CallsOf({"create_version"}) = {}
           /\ \A i \in CallsOf({"create_base"}) :
                 calls[i].name = AcmeWidget \o <<";">> \o V200

C8_Witness ==
    /\ pc = "done" /\ args.compname = AcmeWidget /\ args.compvariant = <<>>
    /\ args.compversion = V200 /\ ~LookupHit
    /\ Cardinality(Lookups) = 3
    /\ \E i \in CallsOf({"create_base"}) : calls[i].res > 0

\* C9: over any sequence of invocations, at most one create-base call is issued
\* for a component family.
C9_OneBaseCreatePerFamily == \A f \in Compnames : baseCreates[f] <= 1

\* The variant and version of the invocation as new_component_version holds
\* them after its own normalization, None read as "".
LocVariant == IF loc.compvariant = None THEN <<>> ELSE loc.compvariant
LocVersion == IF loc.compversion = None THEN <<>> ELSE loc.compversion

\* C27: within one invocation the name sent to the first lookup, the check-name
\* and the name a created child is renamed to carry the same variant and
\* version, for every variant and version, those with '/' or '.' included.
C27_NamesAgree ==
    pc # "idle" =>
        /\ CheckCompname(loc) = Qualified(ShortCompname(loc.compname), LocVariant, LocVersion)
        /\ Lookups # {} => calls[1].name = Qualified(loc.compname, LocVariant, LocVersion)
        /\ \A i \in CallsOf({"rename"}) :
              calls[i].name = Qualified(IF HasDot(loc.compname) THEN LastSegment(loc.compname)
                                        ELSE loc.compname, LocVariant, LocVersion)

\* The name the i-th lookup of the chain asks for.
ChainName(i) ==
    LookupName(loc.compname, IF i = 3 THEN <<>> ELSE loc.compvariant,
               IF i = 1 THEN loc.compversion ELSE None)

\* C28: the lookups are the first calls of the invocation, at most 3, in order
\* of decreasing specificity; every lookup before the last one missed or failed
\* in transport; latest_compid and found_compname are the id and the name of the
\* last lookup's hit; after 3 misses there is no hit.
C28_LookupChain ==
    /\ Cardinality(Lookups) <= 3
    /\ Lookups = 1..Cardinality(Lookups)
    /\ \A i \in Lookups : calls[i].name = ChainName(i)
    /\ pc = "lookup" => (Cardinality(Lookups) = loc.stage - 1
                          /\ \A i \in Lookups : calls[i].res = -1)
    /\ pc \notin {"idle", "lookup"} =>
          LET n == Cardinality(Lookups)
          IN /\ n >= 1
             /\ \A i \in 1..(n - 1) : calls[i].res = -1
             /\ loc.latest_compid = calls[n].res
             /\ calls[n].res = -1 => (n = 3 /\ loc.found_compname = <<>>)
             /\ calls[n].res >= 0 =>
                   \E c \in catalog : c.id = calls[n].res /\ c.name = loc.found_compname

\* A lookup failed in transport, the next one hit.
C28_Witness ==
    /\ pc = "done" /\ Cardinality(Lookups) = 3 /\ LookupHit
    /\ ~calls[1].ok /\ calls[2].ok /\ calls[3].res > 0
    /\ args.compversion # <<>>

\* C29: a create-version call is issued iff a lookup hit, auto_increment is
\* None and the found name differs from the check-name; a create-base call iff
\* no lookup hit; at most one create call per invocation.
C29_CreateDecision ==
    /\ Cardinality(CallsOf(CreateOps)) <= 1
    /\ pc = "done" =>
          /\ CallsOf({"create_version"}) # {}
                <=> (LookupHit /\ args.compautoinc = "None"
                     /\ loc.found_compname # CheckCompname(loc))
          /\ CallsOf({"create_base"}) # {} <=> ~LookupHit

C29_Witness ==
    /\ pc = "done" /\ LookupHit /\ args.compautoinc = "None"
    /\ loc.found_compname # CheckCompname(loc)
    /\ \E i \in CallsOf({"create_version"}) : calls[i].res > 0

\* C30: a create-version call has as parent the id a lookup of the same
\* invocation returned before it; every create call comes after a lookup of its
\* invocation; an invocation begins with no lookup result.
C30_CreateAfterLookup ==
    /\ \A i \in CallsOf({"create_version"}) :
          \E j \in Lookups : j < i /\ calls[j].res >= 0 /\ calls[j].res = calls[i].comp
    /\ \A i \in CallsOf(CreateOps) : \E j \in Lookups : j < i
    /\ (pc = "lookup" /\ calls = <<>>) =>
          (loc.latest_compid = -1 /\ loc.found_compname = <<>> /\ loc.compid = -1)

\* A second invocation derives a version from the component its own lookup found.
C30_Witness ==
    /\ ncalls = 2
    /\ \E i \in CallsOf({"create_version"}) : calls[i].comp > 0 /\ calls[i].res > 0

ItemOps == {"set_attrs", "item_create", "item_link"}

\* C31: when new_component_version creates a new child, the calls for the child
\* come in the order create-from-parent, rename, item structure, and the item
\* structure of the new component id is created exactly once in the invocation:
\* one removeall set-attributes call for docker kind, one walk of the item list
\* for file kind.
C31_ChildItemsOnce ==
    pc = "done" =>
        \A i \in CallsOf({"create_version"}) :
            calls[i].res > 0 =>
                /\ i < Len(calls) /\ calls[i + 1].op = "rename"
                /\ \A j \in (i + 2)..Len(calls) : calls[j].op \in ItemOps
                /\ \A j \in 1..i : calls[j].op \notin ItemOps
                /\ Cardinality({j \in DOMAIN calls : calls[j].op \in ItemOps
                                    /\ calls[j].comp = calls[i].res
                                    /\ calls[j].removeall}) = 1

\* ------------------------------------------------ function specifications
\* A function is applied to arguments drawn in the initial state; output holds
\* what each application returned.

\* clean_name applied to a string, then to its own result.
apply_clean_name ==
    /\ Len(output) < 2
    /\ output' = Append(output, clean_name(IF output = <<>> THEN input
                                           ELSE output[Len(output)]))
    /\ UNCHANGED <<input, engineVars, storeVars, webVars>>

InitClean ==
    /\ EngineInit
    /\ WebInit
    /\ StoreInit
    /\ input \in StringsUpTo(CleanAlphabet, MaxLen)
    /\ output = <<>>

SpecClean == InitClean /\ [][apply_clean_name]_vars

\* C6: clean_name is idempotent: clean_name(clean_name(s)) = clean_name(s).
C6_CleanNameIdempotent == Len(output) = 2 => output[2] = output[1]

\* The longest variant or version the normalization specification draws.
MaxQualLen == 2
QualAlphabet == {"a", ".", "/", "(", ";"}
OptStrings == {None} \cup StringsUpTo(QualAlphabet, MaxQualLen)

\* The entry points' normalization applied to (variant, version), then the
\* promotion step applied again to what it gave.
apply_normalize ==
    /\ Len(output) < 2
    /\ output' = Append(output,
                        IF output = <<>> THEN Normalize(input.compvariant, input.compversion)
                        ELSE Promote(output[1].variant, output[1].version))
    /\ UNCHANGED <<input, engineVars, storeVars, webVars>>

InitNormalize ==
    /\ EngineInit
    /\ WebInit
    /\ StoreInit
    /\ input \in [compvariant : OptStrings, compversion : OptStrings]
    /\ output = <<>>

SpecNormalize == InitNormalize /\ [][apply_normalize]_vars

\* C7: at an entry point, with variant and version as clean_name leaves them: an
\* empty variant ("" or None) with a non-empty version becomes (version, None);
\* a non-empty variant leaves the pair as it is; promoting again changes nothing.
C7_LoneVersionPromoted ==
    LET v == clean_name(input.compvariant)
        w == clean_name(input.compversion)
    IN /\ Len(output) >= 1 =>
            /\ ((v = <<>> \/ v = None) /\ w # None /\ w # <<>>)
                    => output[1] = [variant |-> w, version |-> None]
            /\ (v # <<>> /\ v # None) => output[1] = [variant |-> v, version |-> w]
       /\ Len(output) = 2 => output[2] = output[1]

C7_Witness ==
    /\ Len(output) = 2
    /\ input.compvariant \in {<<>>, None}
    /\ input.compversion = <<"a", ".">>
    /\ output[2] = [variant |-> <<"a", "_">>, version |-> None]

\* What the catalog lookup's HTTP request can come back with, whatever the catalog holds.
LookupResponses ==
    LET w == LastSegment(AcmeWidget)
        names == {w, w \o <<";">> \o V1}
        vers == { <<>>, <<[id |-> 2, name |-> w \o <<";">> \o V1]>>,
                  <<[id |-> 1, name |-> w], [id |-> 2, name |-> w \o <<";">> \o V1]>>,
                  <<[id |-> 2, name |-> w \o <<";">> \o V1],
                    [id |-> 4, name |-> w \o <<";">> \o V1]>> }
        bodies == {JsonMiss, [JsonMiss EXCEPT !.kind = "other"]}
                    \cup {JsonHit(i, n, v) : i \in {0, 1, 3}, n \in names, v \in vers}
    IN HttpFailures \cup {[kind |-> "status", status |-> st, json |-> b] :
                            st \in {200, 404}, b \in bodies}

apply_get_component ==
    /\ output = <<>>
    /\ output' = <<get_component(input.res, input.compname, input.compvariant,
                                 input.compversion)>>
    /\ UNCHANGED <<input, engineVars, storeVars, webVars>>

InitLookup ==
    /\ EngineInit
    /\ WebInit
    /\ StoreInit
    /\ input \in [res : LookupResponses, compname : Compnames,
                  compvariant : {<<>>, V1}, compversion : {<<>>, None, V200}]
    /\ output = <<>>

SpecLookup == InitLookup /\ [][apply_get_component]_vars

\* The request is a lookup miss or failed: an exception, no response, a status
\* other than 200, a body that does not parse, or success = false.
LookupMissOrFailure(res) ==
    \/ res.kind # "status"
    \/ res.status # 200
    \/ res.json.kind = "none"
    \/ (res.json.kind = "json" /\ ~res.json.success)

\* The lookup succeeded and the catalog's current name is not the check-name.
DivergentHit ==
    /\ Len(output) = 1
    /\ ~LookupMissOrFailure(input.res)
    /\ input.res.json.kind = "json"
    /\ input.res.json.name
          # LookupCheckName(input.compname, input.compvariant, input.compversion)

\* C33: for a successful lookup whose current name differs from the check-name,
\* get_component returns the id and name of the first entry of "versions" named
\* check-name when there is one, and the catalog's current id and name when
\* there is none: a hit with a divergent name, not -1.
C33_VersionsScan ==
    DivergentHit =>
        LET check == LookupCheckName(input.compname, input.compvariant, input.compversion)
            j == input.res.json
            vers == j.versions
            got == output[1]
        IN /\ ~got.exc
           /\ (\E i \in DOMAIN vers : vers[i].name = check) =>
                 \E i \in DOMAIN vers :
                     /\ vers[i].name = check
                     /\ \A k \in 1..(i - 1) : vers[k].name # check
                     /\ got.id = vers[i].id /\ got.name = vers[i].name
           /\ (\A i \in DOMAIN vers : vers[i].name # check) =>
                 (got.id = j.id /\ got.name = j.name /\ got.id # -1)

\* Two entries of "versions" carry the check-name; the first one is returned.
C33_Witness ==
    /\ DivergentHit
    /\ Len(input.res.json.versions) = 2
    /\ input.res.json.versions[1].name = input.res.json.versions[2].name
    /\ output[1].id = input.res.json.versions[1].id
    /\ output[1].id # input.res.json.id

\* C5: get_component returns exactly (-1, "") without raising on every lookup
\* miss, non-200 response and transport failure, and a non-negative id only when
\* the catalog answered success = true.
C5_MissIsMinusOne ==
    Len(output) = 1 =>
        /\ LookupMissOrFailure(input.res)
              => output[1] = [exc |-> FALSE, id |-> -1, name |-> <<>>]
        /\ (~output[1].exc /\ output[1].id >= 0)
              => (input.res.kind = "status" /\ input.res.status = 200
                  /\ input.res.json.kind = "json" /\ input.res.json.success)

C5_Witness ==
    /\ Len(output) = 1
    /\ input.res.kind = "status" /\ input.res.status = 404 /\ input.res.json.success
    /\ output[1].id = -1

\* ------------------------------------------- new_component_item on its own

MaxWalk == 3

apply_new_component_item ==
    /\ output = <<>>
    /\ output' = <<new_component_item(input.compid, input.kind, input.component_items,
                                      input.outs, 1)>>
    /\ UNCHANGED <<input, engineVars, storeVars, webVars>>

\* Item lists of 1 to MaxWalk entries, and no list.
WalkLists == {NoItems} \cup {[i \in 1..n |-> ToString(i)] : n \in 1..MaxWalk}

InitItems ==
    /\ EngineInit
    /\ WebInit
    /\ StoreInit
    /\ \E kind \in {"docker", "file"}, items \in WalkLists, compid \in {1, 2} :
          /\ kind = "docker" => items = NoItems
          /\ \E outs \in ItemOutcomes(kind, items) :
                input = [compid |-> compid, kind |-> kind, component_items |-> items,
                         outs |-> outs]
    /\ output = <<>>

SpecItems == InitItems /\ [][apply_new_component_item]_vars

\* The calls of one kind among those new_component_item issued, in order.
IssuedOf(op) == SelectSeq(output[1], LAMBDA c : c.op = op)

\* C32: for file kind and a list of n >= 1 items, new_component_item issues one
\* item-create call per entry in list order, the k-th at vertical position
\* 100 * k; exactly one of them carries removeall, the first; and every item
\* created after the first one created is linked by one link call as the child
\* of the item created immediately before it, so that the links are one linear
\* chain in list order, also when item-create calls fail.
C32_ItemChain ==
    (Len(output) = 1 /\ input.kind = "file" /\ input.component_items # NoItems) =>
        LET items == input.component_items
            creates == IssuedOf("item_create")
            links == IssuedOf("item_link")
            created == {k \in DOMAIN creates : creates[k].ok}
            Before(k) == {j \in created : j < k}
        IN /\ Len(creates) = Len(items)
           /\ Len(creates) + Len(links) = Len(output[1])
           /\ \A k \in DOMAIN creates :
                 /\ creates[k].name = <<items[k]>>
                 /\ creates[k].ypos = 100 * k
                 /\ creates[k].removeall <=> k = 1
           /\ Len(links) = IF created = {} THEN 0 ELSE Cardinality(created) - 1
           /\ \A k \in created :
                 Before(k) # {} =>
                    LET prev == CHOOSE j \in Before(k) : \A h \in Before(k) : h <= j
                    IN Cardinality({l \in DOMAIN links :
                                       /\ links[l].tn = creates[k].res
                                       /\ links[l].fn = creates[prev].res}) = 1

\* The same for the walks in which every result the catalog gave carries an id.
ItemChainWithIds ==
    (Len(output) = 1 /\ \A k \in DOMAIN input.outs : input.outs[k] # "noid")
        => C32_ItemChain

\* ------------------------------------------------------- origin resolver
\* A registry response is an exception of requests.get or a status with a body:
\* one that does not parse, one without the repository field, one with it.
\* A probe says how the clone and the two revision lookups of get_commit_sha end.

RepoUrl == <<"u">>
OriginHash == <<"h">>
RevSha == <<"s">>

RegistryResponses ==
    {[kind |-> "exception", status |-> 0, body |-> "unparseable"]}
        \cup [kind : {"status"}, status : {200, 404}, body : {"unparseable", "no_url", "url"}]
Probes == [clone : {"timeout", "norepo", "cloned"}, rev : {"found", "notfound"},
           vrev : {"found", "notfound"}]

Raised == [exc |-> TRUE, repo_url |-> None, commit_sha |-> None]
Returned(repo_url, commit_sha) == [exc |-> FALSE, repo_url |-> repo_url, commit_sha |-> commit_sha]

\* get_commit_sha: None for no URL, a clone that times out or leaves no
\* repository; else the revision of the version, then of "v" + version. A
\* version of None makes the first revision lookup raise TypeError, which the
\* except clauses (CalledProcessError) do not catch.
\* cwd: the working directory the call leaves behind.
get_commit_sha(repo_url, package_version, probe) ==
    IF repo_url = None THEN [exc |-> FALSE, sha |-> None, cwd |-> "orig"]
    ELSE IF probe.clone = "timeout" THEN [exc |-> FALSE, sha |-> None, cwd |-> "orig"]
    ELSE IF probe.clone = "norepo" \/ repo_url = <<>>
    THEN [exc |-> FALSE, sha |-> None, cwd |-> "orig"]
    ELSE IF package_version = None THEN [exc |-> TRUE, sha |-> None, cwd |-> "temp"]
    ELSE IF probe.rev = "found" THEN [exc |-> FALSE, sha |-> RevSha, cwd |-> "orig"]
    ELSE IF probe.vrev = "found" THEN [exc |-> FALSE, sha |-> RevSha, cwd |-> "orig"]
    ELSE [exc |-> FALSE, sha |-> None, cwd |-> "orig"]

\* repo_url found in the registry's body, then the commit of the version.
WithCommit(repo_url, package_version, probe) ==
    LET c == get_commit_sha(repo_url, package_version, probe)
    IN IF c.exc THEN Raised ELSE Returned(repo_url, c.sha)

\* get_pypi_info and get_rust_info: no status check, no try.
get_pypi_info(version, reg, probe) ==
    IF reg.kind = "exception" \/ reg.body = "unparseable" THEN Raised
    ELSE WithCommit(IF reg.body = "url" THEN RepoUrl ELSE <<>>, version, probe)

get_rust_info(version, reg, probe) ==
    IF reg.kind = "exception" \/ reg.body = "unparseable" THEN Raised
    ELSE WithCommit(IF reg.body = "url" THEN RepoUrl ELSE <<>>, version, probe)

get_npm_info(version, reg, probe) ==
    IF reg.kind = "exception" THEN Raised
    ELSE IF reg.status # 200 THEN Returned(<<>>, None)
    ELSE IF reg.body = "unparseable" THEN Raised
    ELSE WithCommit(IF reg.body = "url" THEN RepoUrl ELSE <<>>, version, probe)

get_golang_info(version, reg) ==
    IF reg.kind = "exception" THEN Raised
    ELSE IF reg.status # 200 THEN Returned(<<>>, None)
    ELSE IF reg.body = "unparseable" THEN Raised
    ELSE IF reg.body = "url" THEN Returned(RepoUrl, OriginHash)
    ELSE Returned(<<>>, None)

\* get_java_info: group.replace raises for a coordinate without a namespace.
get_java_info(group, version, reg, probe) ==
    IF group = None \/ reg.kind = "exception" THEN Raised
    ELSE IF reg.status # 200 THEN Returned(<<>>, None)
    ELSE IF reg.body = "unparseable" THEN Raised
    ELSE IF reg.body = "url" THEN WithCommit(RepoUrl, version, probe)
    ELSE Returned(None, None)

\* get_deb_info: a body without a Vcs-Git line is no URL, not an error.
get_deb_info(version, reg, probe) ==
    IF reg.kind = "exception" THEN Raised
    ELSE IF reg.status = 200 /\ reg.body = "url" THEN WithCommit(RepoUrl, version, probe)
    ELSE Returned(<<>>, None)

getCommitFromPurl(package_type, package_namespace, package_version, reg, probe) ==
    IF package_type = None \/ package_type = <<>> THEN Returned(None, None)
    ELSE IF package_type = <<"pypi">> THEN get_pypi_info(package_version, reg, probe)
    ELSE IF package_type = <<"npm">> THEN get_npm_info(package_version, reg, probe)
    ELSE IF package_type = <<"golang">> THEN get_golang_info(package_version, reg)
    ELSE IF package_type = <<"maven">>
    THEN get_java_info(package_namespace, package_version, reg, probe)
    ELSE IF package_type = <<"cargo">> THEN get_rust_info(package_version, reg, probe)
    ELSE IF package_type = <<"deb">> THEN get_deb_info(package_version, reg, probe)
    ELSE Returned(None, None)

PackageTypes == {None, <<>>, <<"pypi">>, <<"npm">>, <<"golang">>, <<"maven">>, <<"cargo">>,
                 <<"deb">>, <<"gem">>}

apply_getCommitFromPurl ==
    /\ output = <<>>
    /\ output' = <<getCommitFromPurl(input.package_type, input.package_namespace,
                                     input.package_version, input.reg, input.probe)>>
    /\ UNCHANGED <<input, engineVars, storeVars, webVars>>

InitOrigin ==
    /\ EngineInit
    /\ WebInit
    /\ StoreInit
    /\ input \in [package_type : PackageTypes, package_namespace : {None, <<"n">>},
                  package_version : {None, <<"1">>}, reg : RegistryResponses,
                  probe : Probes]
    /\ output = <<>>

SpecOrigin == InitOrigin /\ [][apply_getCommitFromPurl]_vars

\* C10: getCommitFromPurl never raises: for every ecosystem type, registry
\* outcome and version it returns a record of repo_url and commit_sha.
C10_OriginNeverRaises == Len(output) = 1 => ~output[1].exc

\* get_commit_sha applied to a repository URL and a version.
apply_get_commit_sha ==
    /\ output = <<>>
    /\ output' = <<get_commit_sha(input.repo_url, input.package_version, input.probe)>>
    /\ UNCHANGED <<input, engineVars, storeVars, webVars>>

InitCommitSha ==
    /\ EngineInit
    /\ WebInit
    /\ StoreInit
    /\ input \in [repo_url : {None, <<>>, RepoUrl}, package_version : {None, <<"1">>},
                  probe : Probes]
    /\ output = <<>>

SpecCommitSha == InitCommitSha /\ [][apply_get_commit_sha]_vars

\* C11: on every exit path of get_commit_sha, an exception of a revision lookup
\* included, the working directory after the call is the one before it.
C11_CwdRestored == Len(output) = 1 => output[1].cwd = "orig"

\* ------------------------------------------------- the revision lookups

\* The lookups of a probe that asks for both revisions whatever the first finds.
rev_lookups_always_both(repo_url, package_version, probe) ==
    IF repo_url = None \/ probe.clone # "cloned" \/ repo_url = <<>> THEN <<>>
    ELSE IF package_version = None THEN <<None>>
    ELSE <<package_version, <<"v">> \o package_version>>

\* The revisions get_commit_sha hands to git rev-list, in order: none without a
\* repository; the version, and "v" + version when the first lookup fails. A
\* version of None makes the first call raise.
rev_lookups(repo_url, package_version, probe) ==
    IF repo_url = None \/ probe.clone # "cloned" \/ repo_url = <<>> THEN <<>>
    ELSE IF package_version = None THEN <<None>>
    ELSE IF probe.rev = "found" THEN <<package_version>>
    ELSE <<package_version, <<"v">> \o package_version>>

apply_rev_lookups ==
    /\ output = <<>>
    /\ output' = <<[ret |-> get_commit_sha(input.repo_url, input.package_version,
                                           input.probe),
                    revs |-> rev_lookups(input.repo_url, input.package_version,
                                         input.probe)]>>
    /\ UNCHANGED <<input, engineVars, storeVars, webVars>>

SpecRevs == InitCommitSha /\ [][apply_rev_lookups]_vars

\* The clone left a repository to look revisions up in.
HasRepository == input.repo_url \notin {None, <<>>} /\ input.probe.clone = "cloned"

\* C36: get_commit_sha returns null without any revision lookup when the clone
\* times out or leaves no valid repository; otherwise it looks up the version
\* first and "v" + version only if the first lookup found nothing, at most 2
\* lookups, and returns null if both find nothing.
C36_RevisionLookups ==
    Len(output) = 1 =>
        LET revs == output[1].revs
            ret == output[1].ret
            v == input.package_version
        IN /\ Len(revs) <= 2
           /\ ~HasRepository => (revs = <<>> /\ ~ret.exc /\ ret.sha = None)
           /\ (HasRepository /\ v # None) =>
                 /\ Len(revs) >= 1 /\ revs[1] = v
                 /\ Len(revs) = 2 <=> input.probe.rev = "notfound"
                 /\ Len(revs) = 2 => revs[2] = <<"v">> \o v
                 /\ ~ret.exc
                 /\ ret.sha = None
                       <=> (input.probe.rev = "notfound" /\ input.probe.vrev = "notfound")

\* The version is not a revision, "v" + version is.
C36_Witness ==
    /\ Len(output) = 1 /\ HasRepository
    /\ output[1].revs = <<(<<"1">>), (<<"v", "1">>)>>
    /\ output[1].ret.sha = RevSha

\* ------------------------------------------------ update_component_attrs

Statuses == {199, 200, 299, 300, 404, 500}

\* What requests.post does: a connection error, a read timeout, or a response
\* with a status and a body that is a JSON value, JSON null or not JSON.
PostResponses ==
    {[kind |-> "connerr"], [kind |-> "timeout"]}
    \cup [kind : {"response"}, status : Statuses, body : {"json", "null", "notjson"}]

\* post_json: None for a ConnectionError; any other exception leaves the
\* function; the status test joins its two comparisons with `and`; otherwise
\* the parsed body, which is None for null and raises for a body that is not JSON.
post_json(res) ==
    IF res.kind = "connerr" THEN [exc |-> FALSE, data |-> "None"]
    ELSE IF res.kind = "timeout" THEN [exc |-> TRUE, data |-> "None"]
    ELSE IF res.status < 200 /\ res.status > 299 THEN [exc |-> FALSE, data |-> "None"]
    ELSE IF res.body = "notjson" THEN [exc |-> TRUE, data |-> "None"]
    ELSE IF res.body = "null" THEN [exc |-> FALSE, data |-> "None"]
    ELSE [exc |-> FALSE, data |-> "json"]

\* update_component_attrs from the id get_component found: nothing is returned
\* for a negative id; otherwise the list's first element says whether post_json
\* returned data.
update_component_attrs(compid, res) ==
    IF compid < 0 THEN [kind |-> "none", ok |-> FALSE]
    ELSE LET data == post_json(res)
         IN IF data.exc THEN [kind |-> "raise", ok |-> FALSE]
            ELSE IF data.data = "None" THEN [kind |-> "list", ok |-> FALSE]
            ELSE [kind |-> "list", ok |-> TRUE]

apply_update_component_attrs ==
    /\ output = <<>>
    /\ output' = <<update_component_attrs(input.compid, input.res)>>
    /\ UNCHANGED <<input, engineVars, storeVars, webVars>>

InitAttrs ==
    /\ EngineInit
    /\ WebInit
    /\ StoreInit
    /\ input \in [compid : {-1, 1, 2}, res : PostResponses]
    /\ output = <<>>

SpecAttrs == InitAttrs /\ [][apply_update_component_attrs]_vars

\* The set-attributes POST was made and answered with a 2xx status.
PostSucceeded ==
    /\ input.res.kind = "response"
    /\ input.res.status >= 200 /\ input.res.status <= 299

\* The POST was made and met a connection error or a status outside 200..299.
PostFailed ==
    \/ input.res.kind = "connerr"
    \/ input.res.kind = "response" /\ ~PostSucceeded

\* C37: update_component_attrs returns a list whose first element is False
\* whenever the set-attributes POST did not succeed (connection error or a
\* status outside 200..299), and True only when the POST returned a 2xx
\* status; it never returns a success for a non-2xx response.
C37_SuccessOnly2xx ==
    (Len(output) = 1 /\ input.compid >= 0) =>
        /\ PostFailed => (output[1].kind = "list" /\ ~output[1].ok)
        /\ output[1].ok => PostSucceeded

\* What does hold: a connection error gives False, and True is returned only
\* for a response whose body is a JSON value.
SuccessOnlyWithBody ==
    (Len(output) = 1 /\ input.compid >= 0) =>
        /\ input.res.kind = "connerr" => (output[1].kind = "list" /\ ~output[1].ok)
        /\ output[1].ok => (input.res.kind = "response" /\ input.res.body = "json")

\* A 500 response with a JSON body is reported as a success.
SuccessOn500 ==
    /\ Len(output) = 1 /\ input.compid >= 0
    /\ input.res.kind = "response" /\ input.res.status = 500
    /\ output[1].kind = "list" /\ output[1].ok

\* --------------------------------------------- the dispatch by ecosystem

Pypi == <<"pypi">>
Npm == <<"npm">>
Golang == <<"golang">>
Maven == <<"maven">>
Cargo == <<"cargo">>
Deb == <<"deb">>
Ecosystems == {Pypi, Npm, Golang, Maven, Cargo, Deb}

\* The registries getCommitFromPurl sends a request to, in order: the one of
\* the branch taken; get_java_info raises on group.replace before its request
\* when the coordinate has no namespace.
registry_requests(package_type, package_namespace) ==
    IF package_type = None \/ package_type = <<>> THEN <<>>
    ELSE IF package_type = Pypi THEN <<"pypi.org">>
    ELSE IF package_type = Npm THEN <<"registry.npmjs.org">>
    ELSE IF package_type = Golang THEN <<"proxy.golang.org">>
    ELSE IF package_type = Maven
    THEN IF package_namespace = None THEN <<>> ELSE <<"repo1.maven.org">>
    ELSE IF package_type = Cargo THEN <<"crates.io">>
    ELSE IF package_type = Deb THEN <<"launchpad.net">>
    ELSE <<>>

\* The get_commit_sha calls of the branch taken: one after a registry answer
\* the branch accepts, none in get_golang_info.
probe_calls(package_type, package_namespace, reg) ==
    LET parsed == reg.kind = "status" /\ reg.body # "unparseable"
    IN IF package_type \in {Pypi, Cargo} THEN IF parsed THEN 1 ELSE 0
       ELSE IF package_type = Npm THEN IF parsed /\ reg.status = 200 THEN 1 ELSE 0
       ELSE IF package_type = Maven
       THEN IF package_namespace # None /\ parsed /\ reg.status = 200 /\ reg.body = "url"
            THEN 1 ELSE 0
       ELSE IF package_type = Deb
       THEN IF reg.kind = "status" /\ reg.status = 200 /\ reg.body = "url" THEN 1 ELSE 0
       ELSE 0

apply_dispatch ==
    /\ output = <<>>
    /\ output' = <<[result |-> getCommitFromPurl(input.package_type, input.package_namespace,
                                                 input.package_version, input.reg,
                                                 input.probe),
                    registries |-> registry_requests(input.package_type,
                                                     input.package_namespace),
                    probes |-> probe_calls(input.package_type, input.package_namespace,
                                           input.reg)]>>
    /\ UNCHANGED <<input, engineVars, storeVars, webVars>>

SpecDispatch == InitOrigin /\ [][apply_dispatch]_vars

\* C35: getCommitFromPurl queries exactly one registry when the type is pypi,
\* npm, golang, maven, cargo or deb, and none otherwise; for an unrecognized or
\* empty type it returns repo_url = null and commit_sha = null; for golang the
\* commit is the proxy's Origin.Hash and get_commit_sha is never invoked.
C35_OneRegistryPerType ==
    Len(output) = 1 =>
        /\ input.package_type \in Ecosystems => Len(output[1].registries) = 1
        /\ input.package_type \notin Ecosystems =>
              /\ output[1].registries = <<>>
              /\ output[1].probes = 0
              /\ output[1].result = Returned(None, None)
        /\ input.package_type = Golang =>
              /\ output[1].probes = 0
              /\ output[1].registries = <<"proxy.golang.org">>
              /\ output[1].result.commit_sha \in {None, OriginHash}
              /\ (input.reg.kind = "status" /\ input.reg.status = 200
                  /\ input.reg.body = "url") => output[1].result.commit_sha = OriginHash

\* The same for coordinates that carry a namespace.
OneRegistryWithNamespace == input.package_namespace # None => C35_OneRegistryPerType

\* ------------------------------------------------- repository URLs (npm)

\* A string literal as the sequence of its characters.
Chars(str) == [i \in 1..Len(str) |-> SubSeq(str, i, i)]

\* str.replace(old, new) for a non-empty old: every occurrence, left to right.
RECURSIVE ReplaceStr(_, _, _)
ReplaceStr(s, old, new) ==
    IF Len(s) < Len(old) THEN s
    ELSE IF SubSeq(s, 1, Len(old)) = old
    THEN new \o ReplaceStr(SubSeq(s, Len(old) + 1, Len(s)), old, new)
    ELSE <<Head(s)>> \o ReplaceStr(Tail(s), old, new)

StartsWith(s, prefix) == Len(s) >= Len(prefix) /\ SubSeq(s, 1, Len(prefix)) = prefix

\* The URL get_commit_sha hands to git clone.
clone_url(repo_url) ==
    LET r1 == ReplaceStr(repo_url, Chars("http://github.com"), Chars("https://github.com"))
        r2 == ReplaceStr(r1, Chars("git://github.com"), Chars("https://github.com"))
        r3 == ReplaceStr(r2, Chars("git+https://"), Chars("https://github.com"))
        r4 == ReplaceStr(r3, Chars("git+ssh://git@"), Chars("https://"))
    IN ReplaceStr(r4, Chars("git+"), <<>>)

\* The GitUrl attribute create_compver attaches for a repo_url.
GitUrl(giturl) == ReplaceStr(giturl, Chars(".git"), <<>>)

\* The repositories that exist, and the URLs git can fetch them by.
UrlHosts == {Chars("github.com"), Chars("gitlab.com")}
UrlPaths == {Chars("/org/left-pad"), Chars("/o/r")}
Hosted == {Chars("https://") \o h \o q : h \in UrlHosts, q \in UrlPaths}
Fetchable(url) == url \in Hosted \/ \E r \in Hosted : url = r \o Chars(".git")

\* What the registry may give as repository.url.
UrlSchemes == {Chars("https://"), Chars("http://"), Chars("git://"), Chars("git+https://"),
               Chars("git+ssh://git@"), Chars("git+http://")}
RegistryUrls ==
    {c \o h \o q \o x : c \in UrlSchemes, h \in UrlHosts, q \in UrlPaths,
                        x \in {<<>>, Chars(".git")}}
NpmVersions == {Chars("1.3.0"), Chars("2.0")}

\* The revisions get_commit_sha asks rev-list for, in order.
revs_tried(package_version, probe) ==
    IF probe.clone # "cloned" THEN <<>>
    ELSE IF probe.rev = "found" THEN <<package_version>>
    ELSE <<package_version, <<"v">> \o package_version>>

\* An npm coordinate resolved: get_npm_info, the probe inside it, and the
\* GitUrl attribute create_compver derives from the result.
npm_origin(i) ==
    IF i.status # 200
    THEN [repo_url |-> <<>>, commit_sha |-> None, cloned |-> None, revs |-> <<>>,
          giturl |-> None]
    ELSE LET c == get_commit_sha(i.url, i.version, i.probe)
         IN [repo_url |-> i.url, commit_sha |-> c.sha, cloned |-> clone_url(i.url),
             revs |-> revs_tried(i.version, i.probe), giturl |-> GitUrl(i.url)]

apply_npm_origin ==
    /\ output = <<>>
    /\ output' = <<npm_origin(input)>>
    /\ UNCHANGED <<input, engineVars, storeVars, webVars>>

\* git clone yields a repository only from a URL that can be fetched.
InitNpm ==
    /\ EngineInit
    /\ WebInit
    /\ StoreInit
    /\ input \in [url : RegistryUrls, status : {200, 404}, version : NpmVersions,
                  probe : Probes]
    /\ input.probe.clone = "cloned" => Fetchable(clone_url(input.url))
    /\ output = <<>>

SpecNpm == InitNpm /\ [][apply_npm_origin]_vars

LeftPad == Chars("https://github.com/org/left-pad")

\* C21: for pkg:npm/left-pad@1.3.0 whose registry entry has repository.url
\* "git+https://github.com/org/left-pad.git", the repo_url produced and the
\* GitUrl attached are "https://github.com/org/left-pad", the URL handed to
\* git clone is a fetchable URL of that repository, and the revisions tried are
\* 1.3.0 and then v1.3.0.
C21_LeftPadNormalized ==
    (/\ Len(output) = 1
     /\ input.url = Chars("git+https://github.com/org/left-pad.git")
     /\ input.status = 200
     /\ input.version = Chars("1.3.0"))
    => /\ output[1].repo_url = LeftPad
       /\ output[1].giturl = LeftPad
       /\ Fetchable(output[1].cloned) /\ StartsWith(output[1].cloned, LeftPad)
       /\ output[1].revs \in {<<>>, <<Chars("1.3.0")>>, <<Chars("1.3.0"), Chars("v1.3.0")>>}

\* ------------------------------------------------------------- severity
\* The risk level update_vulns gives a finding of the vulnerability database.

LowerLetters == <<"a", "b", "c", "d", "e", "f", "g", "h", "i", "j", "k", "l", "m", "n", "o", "p", "q", "r", "s", "t", "u", "v", "w", "x", "y", "z">>
UpperLetters == <<"A", "B", "C", "D", "E", "F", "G", "H", "I", "J", "K", "L", "M", "N", "O", "P", "Q", "R", "S", "T", "U", "V", "W", "X", "Y", "Z">>

ToUpper(c) ==
    IF \E i \in 1..Len(LowerLetters) : LowerLetters[i] = c
    THEN UpperLetters[CHOOSE i \in 1..Len(LowerLetters) : LowerLetters[i] = c] ELSE c
ToLower(c) ==
    IF \E i \in 1..Len(UpperLetters) : UpperLetters[i] = c
    THEN LowerLetters[CHOOSE i \in 1..Len(UpperLetters) : UpperLetters[i] = c] ELSE c

\* str.capitalize(): the first character upper case, the rest lower case.
capitalize(s) == [i \in 1..Len(s) |-> IF i = 1 THEN ToUpper(s[i]) ELSE ToLower(s[i])]

RiskNone == <<"N", "o", "n", "e">>
RiskLow == <<"L", "o", "w">>
RiskMedium == <<"M", "e", "d", "i", "u", "m">>
RiskHigh == <<"H", "i", "g", "h">>
RiskCritical == <<"C", "r", "i", "t", "i", "c", "a", "l">>
Moderate == <<"M", "o", "d", "e", "r", "a", "t", "e">>

\* A base score as calculate_cvss_score returns it (scores()[0] of the cvss
\* classes): tenths of a point, held as a decimal.Decimal (exactly k/10) or as a
\* float (the double nearest to k/10).
Scores == [ok : {TRUE}, tenths : 0..100, repr : {"decimal", "float"}]
\* calculate_cvss_score returns None for a vector it cannot score.
Unscored == [ok |-> FALSE, tenths |-> 0, repr |-> "float"]

\* The float literal m/10 of the source as a double: the sign of (double - m/10).
\* 0.0, 4.0, 7.0 and 9.0 are exact; 0.1, 6.9 and 8.9 lie above, 3.9 below.
FloatErr(m) ==
    CASE m = 1 -> 1 [] m = 39 -> -1 [] m = 69 -> 1 [] m = 89 -> 1 [] OTHER -> 0

\* Python's comparisons of a score with a float literal m/10: two floats compare
\* as their tenths do; a Decimal compares exactly with the literal's double.
BaseEqLit(b, m) == b.tenths = m /\ (b.repr = "float" \/ FloatErr(m) = 0)
LitLeBase(m, b) ==
    IF b.repr = "float" THEN m <= b.tenths
    ELSE m < b.tenths \/ (m = b.tenths /\ FloatErr(m) <= 0)
BaseLeLit(b, m) ==
    IF b.repr = "float" THEN b.tenths <= m
    ELSE b.tenths < m \/ (b.tenths = m /\ FloatErr(m) >= 0)

\* The if/elif chain over the base score; "" when no branch is taken.
Bucket(base) ==
    IF BaseEqLit(base, 0) THEN RiskNone
    ELSE IF LitLeBase(1, base) /\ BaseLeLit(base, 39) THEN RiskLow
    ELSE IF LitLeBase(40, base) /\ BaseLeLit(base, 69) THEN RiskMedium
    ELSE IF LitLeBase(70, base) /\ BaseLeLit(base, 89) THEN RiskHigh
    ELSE IF LitLeBase(90, base) THEN RiskCritical
    ELSE <<>>

\* The last two statements before the insert: capitalize, Moderate -> Medium.
NormalizeRisk(risklevel) ==
    LET c == capitalize(risklevel) IN IF c = Moderate THEN RiskMedium ELSE c

\* risklevel and cvss of a finding obj, as the body of the loop over vulns
\* computes them; exc: sevlist[0] of an empty "severity" list raises IndexError.
\* obj.severity: "absent", "empty" or "entry"; obj.score: "absent" or "vector";
\* obj.base: what scoring the vector gives; obj.dbspec: "absent" (no
\* database_specific), "no_severity" or "severity", with obj.dbsev its value.
risk_level(obj) ==
    IF obj.severity = "absent"
    THEN [exc |-> FALSE, risklevel |-> NormalizeRisk(<<>>), cvss |-> "empty"]
    ELSE IF obj.severity = "empty"
    THEN [exc |-> TRUE, risklevel |-> <<>>, cvss |-> "empty"]
    ELSE LET scored == IF obj.score = "vector" /\ obj.base.ok THEN Bucket(obj.base)
                       ELSE <<>>
             fallback == IF scored = <<>> /\ obj.dbspec = "severity" THEN obj.dbsev
                         ELSE scored
         IN [exc |-> FALSE, risklevel |-> NormalizeRisk(fallback),
             cvss |-> IF obj.score = "vector" THEN "vector" ELSE "none"]

\* The qualitative severities the database gives, in several letter cases.
DbSeverities ==
    {<<"M", "O", "D", "E", "R", "A", "T", "E">>,
     <<"m", "o", "d", "e", "r", "a", "t", "e">>,
     <<"M", "o", "d", "e", "r", "a", "t", "e">>,
     <<"m", "O", "D", "E", "R", "A", "T", "E">>,
     <<"L", "O", "W">>,
     <<"H", "I", "G", "H">>,
     <<"C", "r", "i", "t", "i", "c", "a", "l">>,
     <<"U", "N", "K", "N", "O", "W", "N">>,
     <<>>}

DbSpecifics ==
    {[dbspec |-> "absent", dbsev |-> <<>>], [dbspec |-> "no_severity", dbsev |-> <<>>]}
        \cup [dbspec : {"severity"}, dbsev : DbSeverities]

Findings ==
    { [severity |-> sv, score |-> sc, base |-> b, dbspec |-> d.dbspec, dbsev |-> d.dbsev] :
        sv \in {"absent", "empty"}, sc \in {"absent"}, b \in {Unscored}, d \in DbSpecifics }
    \cup
    { [severity |-> "entry", score |-> sc, base |-> b, dbspec |-> d.dbspec, dbsev |-> d.dbsev] :
        sc \in {"absent"}, b \in {Unscored}, d \in DbSpecifics }
    \cup
    { [severity |-> "entry", score |-> "vector", base |-> b, dbspec |-> d.dbspec,
       dbsev |-> d.dbsev] : b \in Scores \cup {Unscored}, d \in DbSpecifics }

apply_risk_level ==
    /\ output = <<>>
    /\ output' = <<risk_level(input)>>
    /\ UNCHANGED <<input, engineVars, storeVars, webVars>>

InitRisk ==
    /\ EngineInit
    /\ WebInit
    /\ StoreInit
    /\ input \in Findings
    /\ output = <<>>

SpecRisk == InitRisk /\ [][apply_risk_level]_vars

RiskLevels == {RiskNone, RiskLow, RiskMedium, RiskHigh, RiskCritical}

\* The bucket of a score of k tenths: None for 0.0, Low for 0.1..3.9, Medium
\* for 4.0..6.9, High for 7.0..8.9, Critical for 9.0..10.0.
BucketOfTenths(k) ==
    IF k = 0 THEN RiskNone ELSE IF k <= 39 THEN RiskLow ELSE IF k <= 69 THEN RiskMedium
    ELSE IF k <= 89 THEN RiskHigh ELSE RiskCritical

\* C18: every base score in tenths from 0.0 to 10.0 that scoring returns gets
\* exactly its bucket, and a fallback value "Moderate" in any letter case is
\* stored as "Medium".
C18_ScoreBuckets ==
    Len(output) = 1 =>
        /\ (input.severity = "entry" /\ input.score = "vector" /\ input.base.ok)
              => output[1].risklevel = BucketOfTenths(input.base.tenths)
        /\ (input.severity = "entry" /\ ~(input.score = "vector" /\ input.base.ok)
                /\ input.dbspec = "severity" /\ capitalize(input.dbsev) = Moderate)
              => output[1].risklevel = RiskMedium

\* C19: a finding without a CVSS vector (no severity entry, or an entry without
\* a score) or whose vector cannot be scored, and with database_specific.severity,
\* is stored with that qualitative value, capitalized, Moderate as Medium.
C19_QualitativeFallback ==
    (Len(output) = 1 /\ input.dbspec = "severity"
        /\ (input.severity # "entry" \/ input.score = "absent" \/ ~input.base.ok))
        => (~output[1].exc /\ output[1].risklevel = NormalizeRisk(input.dbsev))

\* C20: every finding row written has risklevel in {None, Low, Medium, High,
\* Critical}.
C20_RiskLevelInRange ==
    (Len(output) = 1 /\ ~output[1].exc) => output[1].risklevel \in RiskLevels

\* ------------------------------------------------- save_components_data
\* The call is modelled statement by statement: connect, DELETE, INSERT
\* (executemany), commit. The cursor works in a transaction of the connection
\* (no autocommit is set): job.txn is the table as the transaction sees it,
\* store.deps the committed table; leaving the "with" block without a commit
\* discards the transaction.

\* The number of save_components_data calls in one behaviour.
MaxSaves == 2
\* The longest components_data list an upload handler builds.
MaxBatch == 2

db_conn_retry == 3

Compids == {1, 2}
Bomformats == {"license", "cve"}
Packages == {"p", "q"}
\* components_data: a list of rows, one per component of the document.
ComponentsData == UNION {[1..n -> Packages] : n \in 0..MaxBatch}

DepRow(compid, bomformat, pkg) == [compid |-> compid, deptype |-> bomformat, pkg |-> pkg]
\* list(set(components_data)) as rows of (compid, bomformat).
BatchRows(compid, bomformat, components_data) ==
    {DepRow(compid, bomformat, components_data[i]) : i \in DOMAIN components_data}
\* The rows a DELETE without the condition on compid would match.
RowsOf_any_compid(deps, compid, bomformat) == {r \in deps : r.deptype = bomformat}
RowsOf(deps, compid, bomformat) == {r \in deps : r.compid = compid /\ r.deptype = bomformat}

\* How a storage statement ends: it succeeds, raises InterfaceError or
\* OperationalError, or raises another exception.
Outcomes == {"ok", "transient", "other"}

\* DELETE ... where compid = %s and deptype = %s, with autocommit (statement
\* by statement).
delete_autocommit(deps, txn, compid, bomformat) ==
    [deps |-> deps \ RowsOf(deps, compid, bomformat),
     txn |-> txn \ RowsOf(txn, compid, bomformat)]

\* DELETE ... where compid = %s and deptype = %s, in the transaction.
delete_old(deps, txn, compid, bomformat) ==
    [deps |-> deps, txn |-> txn \ RowsOf(txn, compid, bomformat)]

\* INSERT ... ON CONFLICT ON CONSTRAINT dm_componentdeps_pkey DO NOTHING, for
\* every row of the batch.
insert_batch(txn, rows) == txn \cup rows

\* The except clause with one attempt more than db_conn_retry.
save_failed_retries_once_more(j, outcome, at) ==
    LET seen == [j EXCEPT !.errors = Append(@, [kind |-> outcome, at |-> at]), !.txn = {}]
    IN IF outcome = "transient" /\ j.attempt <= db_conn_retry
       THEN [seen EXCEPT !.attempt = @ + 1, !.pc = "connect"]
       ELSE [seen EXCEPT !.pc = "returned", !.result = "http500"]

\* except (InterfaceError, OperationalError): retry while attempt < no_of_retry,
\* else raise; any exception that leaves the loop becomes HTTPException 500.
save_failed(j, outcome, at) ==
    LET seen == [j EXCEPT !.errors = Append(@, [kind |-> outcome, at |-> at]), !.txn = {}]
    IN IF outcome = "transient" /\ j.attempt < db_conn_retry
       THEN [seen EXCEPT !.attempt = @ + 1, !.pc = "connect"]
       ELSE [seen EXCEPT !.pc = "returned", !.result = "http500"]

SaveIdle == job.op = "idle" \/ (job.op = "save" /\ job.pc = "returned")
SaveAt(pc_) == job.op = "save" /\ job.pc = pc_

\* Entry: an empty components_data returns at once; else duplicates are removed
\* and the first attempt begins.
save_components_data ==
    /\ SaveIdle
    /\ (IF job.op = "idle" THEN 0 ELSE job.nsaves) < MaxSaves
    /\ \E compid \in Compids, bomformat \in Bomformats, components_data \in ComponentsData :
          job' = [op |-> "save", compid |-> compid, bomformat |-> bomformat,
                  components_data |-> components_data,
                  rows |-> BatchRows(compid, bomformat, components_data),
                  pc |-> IF Len(components_data) = 0 THEN "returned" ELSE "connect",
                  result |-> IF Len(components_data) = 0 THEN "not_updated" ELSE "none",
                  attempt |-> 1, errors |-> <<>>, txn |-> {}, rows_inserted |-> 0,
                  commits |-> 0, before |-> store.deps,
                  nsaves |-> (IF job.op = "idle" THEN 0 ELSE job.nsaves) + 1]
    /\ UNCHANGED <<store, engineVars, funVars, webVars>>

\* with engine.connect() as connection
save_connect ==
    /\ SaveAt("connect")
    /\ \E outcome \in Outcomes :
          job' = IF outcome = "ok" THEN [job EXCEPT !.pc = "delete", !.txn = store.deps]
                 ELSE save_failed(job, outcome, "connect")
    /\ UNCHANGED <<store, engineVars, funVars, webVars>>

\* cursor.execute(DELETE ...)
save_delete ==
    /\ SaveAt("delete")
    /\ \E outcome \in Outcomes :
          LET d == delete_old(store.deps, job.txn, job.compid, job.bomformat)
          IN IF outcome = "ok"
             THEN /\ job' = [job EXCEPT !.pc = "insert", !.txn = d.txn]
                  /\ store' = [store EXCEPT !.deps = d.deps]
             ELSE /\ job' = save_failed(job, outcome, "delete")
                  /\ store' = store
    /\ UNCHANGED <<engineVars, funVars, webVars>>

\* cursor.executemany(INSERT ...); rows_inserted = cursor.rowcount
save_insert ==
    /\ SaveAt("insert")
    /\ \E outcome \in Outcomes :
          job' = IF outcome = "ok"
                 THEN [job EXCEPT !.pc = "commit", !.txn = insert_batch(job.txn, job.rows),
                                  !.rows_inserted = Cardinality(job.rows \ job.txn)]
                 ELSE save_failed(job, outcome, "insert")
    /\ UNCHANGED <<store, engineVars, funVars, webVars>>

\* conn.commit(), then the return
save_commit ==
    /\ SaveAt("commit")
    /\ \E outcome \in Outcomes :
          IF outcome = "ok"
          THEN /\ store' = [store EXCEPT !.deps = job.txn]
               /\ job' = [job EXCEPT !.pc = "returned", !.commits = @ + 1, !.txn = {},
                                     !.result = IF job.rows_inserted > 0 THEN "updated"
                                                ELSE "not_updated"]
          ELSE /\ store' = store
               /\ job' = save_failed(job, outcome, "commit")
    /\ UNCHANGED <<engineVars, funVars, webVars>>

NextSave ==
    \/ save_components_data
    \/ save_connect
    \/ save_delete
    \/ save_insert
    \/ save_commit

SpecSave == Init /\ [][NextSave]_vars

\* ---------------------------------- properties of save_components_data

\* The attempts of the running call begun so far.
SaveAttempts == IF job.op = "save" /\ Len(job.components_data) > 0 THEN job.attempt ELSE 0
SaveReturned == job.op = "save" /\ job.pc = "returned"
Transient(errors) == \A i \in DOMAIN errors : errors[i].kind = "transient"

\* C13: at most 3 attempts of the delete-then-insert batch; a call that returns
\* without error after failed attempts saw transient errors only and committed
\* exactly once; a call that fails ends on a non-transient error, retried never,
\* or on the transient error of the 3rd attempt, and committed nothing.
C13_BoundedRetry ==
    /\ SaveAttempts <= db_conn_retry
    /\ job.op = "save" => Len(job.errors) <= db_conn_retry
    /\ (SaveReturned /\ job.result # "http500" /\ Len(job.components_data) > 0)
          => /\ job.commits = 1
             /\ Transient(job.errors)
             /\ job.attempt = Len(job.errors) + 1
    /\ (SaveReturned /\ job.result = "http500")
          => /\ job.commits = 0
             /\ job.attempt = Len(job.errors)
             /\ Transient(SubSeq(job.errors, 1, Len(job.errors) - 1))
             /\ job.errors[Len(job.errors)].kind = "transient" => job.attempt = db_conn_retry

C13_Witness ==
    /\ SaveReturned /\ job.result = "updated" /\ job.commits = 1
    /\ Len(job.errors) = 2 /\ Transient(job.errors) /\ job.attempt = 3

\* C15: after save_components_data returns without error, the stored rows of
\* (compid, deptype) are exactly the distinct rows of the batch, the empty batch
\* included.
C15_BatchSupersedes ==
    (SaveReturned /\ job.result # "http500")
        => RowsOf(store.deps, job.compid, job.bomformat) = job.rows

\* The table after the batch's delete and insert, applied to what was committed
\* when the call began.
Superseded == insert_batch(job.before \ RowsOf(job.before, job.compid, job.bomformat), job.rows)

\* C16: the delete and the insert are committed together, once per successful
\* attempt: the committed table is the one before the call until the commit and
\* the superseded one after it, whatever attempts failed in between.
C16_DeleteInsertAtomic ==
    job.op = "save" =>
        /\ job.commits <= 1
        /\ job.commits = 0 => store.deps = job.before
        /\ job.commits = 1 => store.deps = Superseded

\* An attempt failed after its delete, with old rows to lose.
C16_Witness ==
    /\ job.op = "save" /\ Len(job.errors) > 0
    /\ job.errors[Len(job.errors)].at \in {"insert", "commit"}
    /\ RowsOf(job.before, job.compid, job.bomformat) # {}
    /\ RowsOf(job.before, job.compid, job.bomformat) # job.rows
    /\ store.deps = job.before

\* ------------------------------- two save_components_data calls at once

\* The columns of dm_componentdeps_pkey: a row is unique per component id,
\* dependency type and package.
DepKey(r) == [compid |-> r.compid, deptype |-> r.deptype, pkg |-> r.pkg]

\* Two handlers save at once, one batch for component 1 and one for component 2,
\* each in a transaction of its own (read committed): gone are the committed
\* rows its DELETE removed, txn the rows its INSERT added, both invisible to
\* the other transaction until the commit.
PairBatches == {<<"p">>, <<"q", "p">>}
PairStores ==
    {{}, {DepRow(1, "license", "q"), DepRow(2, "license", "q"), DepRow(2, "cve", "p")}}

PairJob(compid, components_data) ==
    [compid |-> compid, bomformat |-> "license",
     rows |-> BatchRows(compid, "license", components_data),
     pc |-> "connect", result |-> "none", attempt |-> 1, errors |-> <<>>,
     txn |-> {}, gone |-> {}]

PairIdle == job.op = "idle"
PairAt(t, at) == job.op = "pair" /\ job.jobs[t].pc = at
PairFailed(j, outcome, at) == [save_failed(j, outcome, at) EXCEPT !.gone = {}]

pair_start ==
    /\ PairIdle
    /\ \E d1 \in PairBatches, d2 \in PairBatches :
          job' = [op |-> "pair", jobs |-> <<PairJob(1, d1), PairJob(2, d2)>>,
                  before |-> store.deps]
    /\ UNCHANGED <<store, engineVars, funVars, webVars>>

pair_connect ==
    /\ \E t \in {1, 2}, outcome \in Outcomes :
          /\ PairAt(t, "connect")
          /\ job' = [job EXCEPT !.jobs[t] = IF outcome = "ok" THEN [@ EXCEPT !.pc = "delete"]
                                            ELSE PairFailed(@, outcome, "connect")]
    /\ UNCHANGED <<store, engineVars, funVars, webVars>>

\* DELETE ... where compid = %s and deptype = %s: the committed rows that match.
pair_delete ==
    /\ \E t \in {1, 2}, outcome \in Outcomes :
          /\ PairAt(t, "delete")
          /\ LET j == job.jobs[t]
             IN job' = [job EXCEPT !.jobs[t] =
                          IF outcome = "ok"
                          THEN [@ EXCEPT !.pc = "insert",
                                         !.gone = RowsOf(store.deps, j.compid, j.bomformat)]
                          ELSE PairFailed(@, outcome, "delete")]
    /\ UNCHANGED <<store, engineVars, funVars, webVars>>

\* The rows a transaction sees: what is committed, less its deletes, with its
\* inserts.
Visible(j) == (store.deps \ j.gone) \cup j.txn

\* INSERT ... ON CONFLICT ON CONSTRAINT dm_componentdeps_pkey DO NOTHING: a row
\* whose key is taken is skipped; the statement waits while the other
\* transaction holds an uncommitted row of the same key.
pair_insert ==
    /\ \E t \in {1, 2}, outcome \in Outcomes :
          /\ PairAt(t, "insert")
          /\ LET j == job.jobs[t]
                 o == job.jobs[3 - t]
                 free == {r \in j.rows : \A v \in Visible(j) : DepKey(v) # DepKey(r)}
             IN /\ \A r \in j.rows : \A u \in o.txn : DepKey(u) # DepKey(r)
                /\ job' = [job EXCEPT !.jobs[t] =
                             IF outcome = "ok"
                             THEN [@ EXCEPT !.pc = "commit", !.txn = free]
                             ELSE PairFailed(@, outcome, "insert")]
    /\ UNCHANGED <<store, engineVars, funVars, webVars>>

pair_commit ==
    /\ \E t \in {1, 2}, outcome \in Outcomes :
          /\ PairAt(t, "commit")
          /\ LET j == job.jobs[t]
             IN IF outcome = "ok"
                THEN /\ store' = [store EXCEPT !.deps = Visible(j)]
                     /\ job' = [job EXCEPT !.jobs[t] =
                                  [@ EXCEPT !.pc = "returned", !.txn = {}, !.gone = {},
                                            !.result = IF j.txn # {} THEN "updated"
                                                       ELSE "not_updated"]]
                ELSE /\ store' = store
                     /\ job' = [job EXCEPT !.jobs[t] = PairFailed(@, outcome, "commit")]
    /\ UNCHANGED <<engineVars, funVars, webVars>>

NextPair ==
    \/ pair_start
    \/ pair_connect
    \/ pair_delete
    \/ pair_insert
    \/ pair_commit

InitPair ==
    /\ EngineInit
    /\ WebInit
    /\ input = <<>>
    /\ output = <<>>
    /\ store \in [deps : PairStores, vulns : {{}}]
    /\ job = [op |-> "idle"]

SpecPair == InitPair /\ [][NextPair]_vars

\* The rows of one component id, of every dependency type.
RowsOfCompid(deps, compid) == {r \in deps : r.compid = compid}
\* What the batch leaves for its component id when it runs alone.
AloneRows(j) ==
    (RowsOfCompid(job.before, j.compid) \ RowsOf(job.before, j.compid, j.bomformat))
        \cup j.rows

\* C34: in every interleaving of two save_components_data batches for different
\* component ids, the committed rows of each component id are those before the
\* calls until its batch commits and those the batch alone would have produced
\* after; a batch that fails leaves them as they were. Neither batch deletes or
\* drops a row of the other component id.
C34_DifferentCompidsIndependent ==
    job.op = "pair" =>
        \A t \in {1, 2} :
            LET j == job.jobs[t]
                mine == RowsOfCompid(store.deps, j.compid)
            IN /\ mine \in {RowsOfCompid(job.before, j.compid), AloneRows(j)}
               /\ (j.pc = "returned" /\ j.result # "http500") => mine = AloneRows(j)
               /\ (j.pc = "returned" /\ j.result = "http500")
                     => mine = RowsOfCompid(job.before, j.compid)

\* Both batches committed, each over old rows, one after a failed attempt, and
\* their statements interleaved.
C34_Witness ==
    /\ job.op = "pair"
    /\ job.before # {}
    /\ \A t \in {1, 2} : job.jobs[t].pc = "returned" /\ job.jobs[t].result = "updated"
    /\ \E t \in {1, 2} : Len(job.jobs[t].errors) > 0
    /\ \A t \in {1, 2} : RowsOfCompid(store.deps, t) # RowsOfCompid(job.before, t)

\* ------------------------------------------------------------ update_vulns
\* One pass: connect, select the packages with a purl, then for every package
\* create_compver, get_vulns and, for every finding, the insert and its commit.

\* The number of update_vulns passes in one behaviour.
MaxPasses == 2
\* The longest list of findings get_vulns returns for a package.
MaxFindings == 2

PackageOrder == <<"p", "q">>

\* select distinct packagename, packageversion, purl ... where deptype = 'license'
SelectResults(deps) ==
    LET Selected(pkg) == \E r \in deps : r.deptype = "license" /\ r.pkg = pkg
    IN SelectSeq(PackageOrder, Selected)

\* Findings of the vulnerability database: two of the same id with different
\* attributes, and one whose "severity" list is empty.
ScoredHigh ==
    [severity |-> "entry", score |-> "vector",
     base |-> [ok |-> TRUE, tenths |-> 75, repr |-> "float"],
     dbspec |-> "absent", dbsev |-> <<>>]
Unrated ==
    [severity |-> "absent", score |-> "absent", base |-> Unscored,
     dbspec |-> "absent", dbsev |-> <<>>]
EmptySeverity == [Unrated EXCEPT !.severity = "empty"]
VulnFindings ==
    { [id |-> "v1", summary |-> "s1", obj |-> ScoredHigh],
      [id |-> "v1", summary |-> "s2", obj |-> Unrated],
      [id |-> "v2", summary |-> "s1", obj |-> EmptySeverity] }
\* get_vulns: the "vulns" of a 200 response, [] for anything else.
VulnLists == UNION {[1..n -> VulnFindings] : n \in 0..MaxFindings}

VulnRow(pkg, f) ==
    [pkg |-> pkg, id |-> f.id, summary |-> f.summary,
     risklevel |-> risk_level(f.obj).risklevel, cvss |-> risk_level(f.obj).cvss]
\* The columns of the constraint dm_vulns_pkey.
VulnKey(r) == <<r.pkg, r.id>>

\* insert ... that replaces the row of a key already stored.
insert_vuln_overwrites(vulns, row) ==
    {r \in vulns : VulnKey(r) # VulnKey(row)} \cup {row}

\* insert into dm.dm_vulns ... ON CONFLICT ON CONSTRAINT dm_vulns_pkey DO NOTHING
insert_vuln(vulns, row) ==
    IF \E r \in vulns : VulnKey(r) = VulnKey(row) THEN vulns ELSE vulns \cup {row}

VulnsIdle == job.op = "idle" \/ (job.op = "vulns" /\ job.pc = "finished")
VulnsAt(pc_) == job.op = "vulns" /\ job.pc = pc_

\* except (InterfaceError, OperationalError) of the pass: retry while
\* attempt < no_of_retry, else raise; another exception is not caught.
vulns_failed(j, outcome) ==
    IF outcome = "transient" /\ j.attempt < db_conn_retry
    THEN [j EXCEPT !.attempt = @ + 1, !.pc = "connect", !.handled = @ \cup {"retried"}]
    ELSE [j EXCEPT !.pc = "finished", !.result = "raised", !.cause = "storage",
                   !.handled = IF outcome = "transient" THEN @ \cup {"raised"} ELSE @]

\* After a row's last finding: the next row, or the return.
NextRow(j) ==
    IF j.i < Len(j.results) THEN [j EXCEPT !.i = @ + 1, !.pc = "create_compver"]
    ELSE [j EXCEPT !.i = Len(j.results) + 1, !.pc = "finished", !.result = "returned"]

update_vulns ==
    /\ VulnsIdle
    /\ (IF job.op = "idle" THEN 0 ELSE job.npass) < MaxPasses
    /\ job' = [op |-> "vulns", pc |-> "connect", attempt |-> 1, results |-> <<>>, i |-> 0,
               vulns |-> <<>>, k |-> 0, result |-> "none", cause |-> "none",
               handled |-> {}, conflicts |-> 0,
               firsts |-> IF job.op = "idle" THEN {} ELSE job.firsts,
               npass |-> (IF job.op = "idle" THEN 0 ELSE job.npass) + 1]
    /\ UNCHANGED <<store, engineVars, funVars, webVars>>

\* with engine.connect() as connection
vulns_connect ==
    /\ VulnsAt("connect")
    /\ \E outcome \in Outcomes :
          job' = IF outcome = "ok" THEN [job EXCEPT !.pc = "select"]
                 ELSE vulns_failed(job, outcome)
    /\ UNCHANGED <<store, engineVars, funVars, webVars>>

\* cursor.execute(select ...); results = cursor.fetchall()
vulns_select ==
    /\ VulnsAt("select")
    /\ \E outcome \in Outcomes :
          job' = IF outcome = "ok"
                 THEN NextRow([job EXCEPT !.results = SelectResults(store.deps), !.i = 0])
                 ELSE vulns_failed(job, outcome)
    /\ UNCHANGED <<store, engineVars, funVars, webVars>>

\* create_compver(dhurl, cookies, purl): it returns, also when an exception of
\* its try block (the store, the catalog, a registry) was printed; a purl that
\* PackageURL.from_string rejects raises before the try block.
vulns_create_compver ==
    /\ VulnsAt("create_compver")
    /\ \E outcome \in {"done", "printed", "purl_error"} :
          job' = IF outcome = "purl_error"
                 THEN [job EXCEPT !.pc = "finished", !.result = "raised", !.cause = "purl"]
                 ELSE [job EXCEPT !.pc = "get_vulns"]
    /\ UNCHANGED <<store, engineVars, funVars, webVars>>

\* vulns = get_vulns(payload)
vulns_get_vulns ==
    /\ VulnsAt("get_vulns")
    /\ \E vulns \in VulnLists :
          job' = IF Len(vulns) = 0 THEN NextRow(job)
                 ELSE [job EXCEPT !.vulns = vulns, !.k = 1, !.pc = "finding"]
    /\ UNCHANGED <<store, engineVars, funVars, webVars>>

\* The body of "for obj in vulns": risklevel, then the insert and its commit,
\* whose exceptions of any class are printed as "Duplicate Vuln".
vulns_finding ==
    /\ VulnsAt("finding")
    /\ LET f == job.vulns[job.k]
           row == VulnRow(job.results[job.i], f)
           after == IF job.k < Len(job.vulns) THEN [job EXCEPT !.k = @ + 1] ELSE NextRow(job)
       IN IF risk_level(f.obj).exc
          THEN /\ job' = [job EXCEPT !.pc = "finished", !.result = "raised",
                                     !.cause = "finding"]
               /\ store' = store
          ELSE \E outcome \in Outcomes :
                 IF outcome = "ok"
                 THEN /\ store' = [store EXCEPT !.vulns = insert_vuln(@, row)]
                      /\ job' = [after EXCEPT
                                   !.conflicts = IF \E r \in store.vulns :
                                                      VulnKey(r) = VulnKey(row) /\ r # row
                                                 THEN 1 ELSE @,
                                   !.firsts = IF \E r \in @ : VulnKey(r) = VulnKey(row)
                                              THEN @ ELSE @ \cup {row}]
                 ELSE /\ store' = store
                      /\ job' = [after EXCEPT
                                   !.handled = IF outcome = "transient"
                                               THEN @ \cup {"dropped"} ELSE @]
    /\ UNCHANGED <<engineVars, funVars, webVars>>

NextVulns ==
    \/ update_vulns
    \/ vulns_connect
    \/ vulns_select
    \/ vulns_create_compver
    \/ vulns_get_vulns
    \/ vulns_finding

\* The store holds the license rows of one or more uploads.
InitVulns ==
    /\ EngineInit
    /\ WebInit
    /\ input = <<>>
    /\ output = <<>>
    /\ store \in [deps : SUBSET {DepRow(1, "license", pkg) : pkg \in Packages}, vulns : {{}}]
    /\ job = [op |-> "idle"]

SpecVulns == InitVulns /\ [][NextVulns]_vars

\* ------------------------------------------------ properties of update_vulns

VulnsFinished == job.op = "vulns" /\ job.pc = "finished"

\* C12: after any sequence of finding inserts the store holds at most one row
\* per key (package, version, id), the row of the first insert for the key; a
\* later insert with the same key changes nothing and is no storage failure of
\* the pass.
C12_FirstWriteWins ==
    /\ \A r1, r2 \in store.vulns : VulnKey(r1) = VulnKey(r2) => r1 = r2
    /\ job.op = "vulns" => store.vulns = job.firsts
    /\ (VulnsFinished /\ job.conflicts > 0 /\ job.result = "raised") => job.cause # "storage"

\* A second finding of a stored key, with other attributes, was inserted and the
\* pass returned.
C12_Witness ==
    /\ VulnsFinished /\ job.result = "returned" /\ job.conflicts > 0
    /\ \E r \in store.vulns : r.summary = "s1" /\ r.risklevel = RiskHigh

\* C14: a transient connectivity error of a storage statement of the pass is
\* retried (at most 3 attempts) or raised to the caller, never dropped.
C14_TransientNeverDropped ==
    job.op = "vulns" => (job.attempt <= db_conn_retry /\ "dropped" \notin job.handled)

\* C17: a failure confined to one row's external data does not abort the pass;
\* a pass that ends by raising ends on a storage failure of the pass.
C17_RowFailureDoesNotAbort ==
    (VulnsFinished /\ job.result = "raised") => job.cause = "storage"

\* ------------------------------------------------------- the upload handlers

MaxRequests == 2

\* Who sends a request: the base URL it came by and the cookies it carries.
Callers == {"a", "b"}
CookiesOf(caller) == caller
\* dhurl as a handler sets it: the base URL with https when HEAD on it answers
\* 200 (the deployment of caller "a"), else with the scheme it came by.
HeadOk(caller) == caller = "a"
BaseUrl(caller) == [base |-> caller, https |-> HeadOk(caller)]

\* What msapi/validateuser does: it answers 200 or another status, or the
\* request raises (no response within the timeout, no connection).
Verdicts == {"200", "403", "exception"}

\* An authorization that lets every answered request pass.
Authorized_when_answered(verdict) == verdict \in {"200", "403"}

\* The caller passes when the validation answers 200; everything else is 401.
Authorized(verdict) == verdict = "200"

\* The purls of a document, in the order of its components: none or one; an
\* SBOM names another package than a purl2comp request.
Bodies(endpoint) == IF endpoint = "purl2comp" THEN {<<>>, <<"p">>} ELSE {<<>>, <<"q">>}

\* A core call: who issued it (the request, and the scan thread if one did)
\* and, for create_compver, the dhurl and cookies it was given.
CoreCall(op, req, scan, purl) ==
    [op |-> op, req |-> req, scan |-> scan, purl |-> purl,
     dhurl |-> IF op = "create_compver" THEN web.dhurl ELSE NoUrl,
     cookies |-> IF op = "create_compver" THEN web.cookies ELSE NoCookies]

\* A handler up to its await: the globals are assigned, then the caller is
\* validated.
Receive(endpoint) ==
    /\ Len(web.reqs) < MaxRequests
    /\ \E caller \in Callers, verdict \in Verdicts :
          LET ok == Authorized(verdict)
              r == [endpoint |-> endpoint, dhurl |-> BaseUrl(caller),
                    cookies |-> CookiesOf(caller), verdict |-> verdict,
                    pc |-> IF ok THEN "body" ELSE "rejected",
                    status |-> IF ok THEN 0 ELSE 401, body |-> <<>>]
          IN web' = [web EXCEPT !.dhurl = BaseUrl(caller),
                                !.cookies = CookiesOf(caller),
                                !.reqs = Append(@, r)]
    /\ UNCHANGED <<engineVars, funVars, storeVars, proc>>

cyclonedx == Receive("cyclonedx")
spdx == Receive("spdx")
purl2comp == Receive("purl2comp")

ReqAt(i, endpoint, at) ==
    /\ i \in DOMAIN web.reqs
    /\ web.reqs[i].endpoint = endpoint
    /\ web.reqs[i].pc = at

UploadCompid == 1

\* save_components_data as the handlers see it: the batch replaces the rows of
\* (compid, bomformat) in one transaction, or the call fails with 500 and the
\* store is as before; an empty batch changes nothing.
Saved(deps, bomformat, components_data) ==
    IF Len(components_data) = 0 THEN deps
    ELSE insert_batch(delete_old(deps, deps, UploadCompid, bomformat).txn,
                      BatchRows(UploadCompid, bomformat, components_data))

SaveStep(i, bomformat, components_data) ==
    \E outcome \in {"ok", "failed"} :
        /\ store' = [store EXCEPT !.deps = IF outcome = "ok"
                                           THEN Saved(@, bomformat, components_data) ELSE @]
        /\ web' = [web EXCEPT !.reqs[i].pc = "returned",
                              !.reqs[i].status = IF outcome = "ok" THEN 200 ELSE 500,
                              !.reqs[i].body = components_data,
                              !.log = @ \cup {CoreCall("save", i, 0, "")}]

\* cyclonedx after await request.json(): bomformat "license", then the save.
cyclonedx_body ==
    /\ \E i \in DOMAIN web.reqs, components_data \in Bodies("cyclonedx") :
          /\ ReqAt(i, "cyclonedx", "body")
          /\ SaveStep(i, "license", components_data)
    /\ UNCHANGED <<engineVars, funVars, job, proc>>

\* spdx after await request.json(): the scan thread is started ...
spdx_body ==
    /\ \E i \in DOMAIN web.reqs, components_data \in Bodies("spdx") :
          /\ ReqAt(i, "spdx", "body")
          /\ web' = [web EXCEPT !.reqs[i].pc = "started",
                                !.reqs[i].body = components_data,
                                !.scans = Append(@, [owner |-> i, pc |-> "select",
                                                     results |-> <<>>, k |-> 0]),
                                !.log = @ \cup {CoreCall("thread", i, 0, "")}]
    /\ UNCHANGED <<engineVars, funVars, storeVars, proc>>

\* ... and then the batch is saved, with bomformat "spdx_json".
spdx_save ==
    /\ \E i \in DOMAIN web.reqs :
          /\ ReqAt(i, "spdx", "started")
          /\ SaveStep(i, "spdx_json", web.reqs[i].body)
    /\ UNCHANGED <<engineVars, funVars, job, proc>>

\* purl2comp after await request.json(): create_compver with the globals as
\* they are by then, nothing for a body without a purl.
purl2comp_body ==
    /\ \E i \in DOMAIN web.reqs, purls \in Bodies("purl2comp") :
          /\ ReqAt(i, "purl2comp", "body")
          /\ web' = [web EXCEPT !.reqs[i].pc = "returned",
                                !.reqs[i].status = 200,
                                !.reqs[i].body = purls,
                                !.log = IF Len(purls) = 0 THEN @
                                        ELSE @ \cup {CoreCall("create_compver", i, 0,
                                                              purls[1])}]
    /\ UNCHANGED <<engineVars, funVars, storeVars, proc>>

\* The scan thread: the select of the license rows ...
scan_select ==
    /\ \E t \in DOMAIN web.scans :
          /\ web.scans[t].pc = "select"
          /\ LET results == SelectResults(store.deps)
             IN web' = [web EXCEPT !.scans[t].results = results,
                                   !.scans[t].k = 1,
                                   !.scans[t].pc = IF Len(results) = 0 THEN "done"
                                                   ELSE "row"]
    /\ UNCHANGED <<engineVars, funVars, storeVars, proc>>

\* ... and for every row create_compver(dhurl, cookies, purl), the globals read
\* at the call.
scan_create_compver ==
    /\ \E t \in DOMAIN web.scans :
          /\ web.scans[t].pc = "row"
          /\ LET sc == web.scans[t]
             IN web' = [web EXCEPT !.scans[t].k = @ + 1,
                                   !.scans[t].pc = IF sc.k = Len(sc.results) THEN "done"
                                                   ELSE "row",
                                   !.log = @ \cup {CoreCall("create_compver", sc.owner, t,
                                                            sc.results[sc.k])}]
    /\ UNCHANGED <<engineVars, funVars, storeVars, proc>>

NextWeb ==
    \/ cyclonedx
    \/ spdx
    \/ purl2comp
    \/ cyclonedx_body
    \/ spdx_body
    \/ spdx_save
    \/ purl2comp_body
    \/ scan_select
    \/ scan_create_compver

\* The store is empty or holds the license rows of an earlier upload.
InitWeb ==
    /\ EngineInit
    /\ WebInit
    /\ input = <<>>
    /\ output = <<>>
    /\ store \in [deps : {{}, {DepRow(UploadCompid, "license", "p")}}, vulns : {{}}]
    /\ job = [op |-> "idle"]

SpecWeb == InitWeb /\ [][NextWeb]_vars

\* ------------------------------------------ properties of the upload handlers

CoreCallsOf(i) == {e \in web.log : e.req = i}
ScansOf(i) == {t \in DOMAIN web.scans : web.scans[t].owner = i}

\* C22: a cyclonedx, spdx or purl2comp request whose caller the validation
\* service does not accept (another status than 200, no response, an exception)
\* ends with 401 and runs no core logic: no save_components_data, no
\* create_compver with its catalog calls, no update_vulns thread.
C22_RejectedRunsNoCore ==
    \A i \in DOMAIN web.reqs :
        web.reqs[i].verdict # "200" =>
            /\ web.reqs[i].pc = "rejected"
            /\ web.reqs[i].status = 401
            /\ CoreCallsOf(i) = {}
            /\ ScansOf(i) = {}

\* A rejected request next to an accepted one whose core logic ran.
C22_Witness ==
    \E i, j \in DOMAIN web.reqs :
        /\ web.reqs[i].verdict = "403" /\ web.reqs[i].status = 401
        /\ web.reqs[j].status = 200 /\ CoreCallsOf(j) # {}

Range(seq) == {seq[i] : i \in DOMAIN seq}

\* C23: the scan an upload handler starts processes the purls of that upload:
\* when the upload is saved and its scan has finished, every purl of the
\* upload's batch is among the rows the scan read, however the thread and the
\* handler's save interleave.
C23_ScanReadsItsUpload ==
    \A t \in DOMAIN web.scans :
        LET r == web.reqs[web.scans[t].owner]
        IN (web.scans[t].pc = "done" /\ r.status = 200) =>
              Range(r.body) \subseteq Range(web.scans[t].results)

\* C24: every create_compver call of a scan is given the dhurl and the cookies
\* of the upload request that started the scan, whatever requests arrive while
\* the scan runs.
C24_ScanUsesItsSession ==
    \A e \in web.log :
        (e.op = "create_compver" /\ e.scan > 0) =>
            /\ e.dhurl = web.reqs[e.req].dhurl
            /\ e.cookies = web.reqs[e.req].cookies

\* C25: a request that fails authorization leaves the globals dhurl and cookies
\* as they were before it.
C25_RejectedKeepsGlobals ==
    [][\A i \in DOMAIN web'.reqs :
          (i \notin DOMAIN web.reqs /\ web'.reqs[i].pc = "rejected") =>
              (web'.dhurl = web.dhurl /\ web'.cookies = web.cookies)]_vars

\* ------------------------------------------------- concurrent commit probes

MaxProbes == 2

\* The temporary directory of the t-th probe.
TempDir(t) == "tmp" \o ToString(t)

ProbeAt(t, at) == t \in DOMAIN proc.probes /\ proc.probes[t].pc = at

\* A thread (a scan, a handler) enters get_commit_sha with a repository URL.
probe_start ==
    /\ Len(proc.probes) < MaxProbes
    /\ proc' = [proc EXCEPT !.probes = Append(@, [pc |-> "getcwd", cwd |-> "", git |-> FALSE])]
    /\ UNCHANGED <<engineVars, funVars, storeVars, web>>

\* cwd = os.getcwd(): the directory of the process, whoever set it; it raises
\* when that directory is gone.
probe_getcwd ==
    /\ \E t \in DOMAIN proc.probes :
          /\ ProbeAt(t, "getcwd")
          /\ proc' = IF proc.cwd \in proc.dirs
                     THEN [proc EXCEPT !.probes[t].cwd = proc.cwd, !.probes[t].pc = "clone"]
                     ELSE [proc EXCEPT !.probes[t].pc = "raised"]
    /\ UNCHANGED <<engineVars, funVars, storeVars, web>>

\* with tempfile.TemporaryDirectory() as temp_dir: git clone ... temp_dir
probe_clone ==
    /\ \E t \in DOMAIN proc.probes, clone \in {"timeout", "norepo", "cloned"} :
          /\ ProbeAt(t, "clone")
          /\ proc' = [proc EXCEPT !.dirs = @ \cup {TempDir(t)},
                                  !.probes[t].git = (clone = "cloned"),
                                  !.probes[t].pc = IF clone = "timeout" THEN "restore"
                                                   ELSE "chdir"]
    /\ UNCHANGED <<engineVars, funVars, storeVars, web>>

\* os.chdir(temp_dir)
probe_chdir ==
    /\ \E t \in DOMAIN proc.probes :
          /\ ProbeAt(t, "chdir")
          /\ proc' = [proc EXCEPT !.cwd = TempDir(t), !.probes[t].pc = "exists"]
    /\ UNCHANGED <<engineVars, funVars, storeVars, web>>

\* The directories that hold a cloned repository.
Cloned == {TempDir(t) : t \in {u \in DOMAIN proc.probes : proc.probes[u].git}} \cap proc.dirs

\* os.path.exists(".git"), in the directory the process is in by now.
probe_exists ==
    /\ \E t \in DOMAIN proc.probes :
          /\ ProbeAt(t, "exists")
          /\ proc' = [proc EXCEPT !.probes[t].pc = IF proc.cwd \in Cloned THEN "rev"
                                                   ELSE "restore"]
    /\ UNCHANGED <<engineVars, funVars, storeVars, web>>

\* git rev-list of the version and of "v" + version; a failure is passed over.
probe_rev ==
    /\ \E t \in DOMAIN proc.probes :
          /\ ProbeAt(t, "rev")
          /\ proc' = [proc EXCEPT !.probes[t].pc = "restore"]
    /\ UNCHANGED <<engineVars, funVars, storeVars, web>>

\* os.chdir(cwd): it raises when the directory saved is gone.
probe_restore ==
    /\ \E t \in DOMAIN proc.probes :
          /\ ProbeAt(t, "restore")
          /\ proc' = IF proc.probes[t].cwd \in proc.dirs
                     THEN [proc EXCEPT !.cwd = proc.probes[t].cwd,
                                       !.probes[t].pc = "cleanup"]
                     ELSE [proc EXCEPT !.probes[t].pc = "cleanup_raising"]
    /\ UNCHANGED <<engineVars, funVars, storeVars, web>>

\* The with block is left, by return or by the exception: temp_dir is removed.
probe_cleanup ==
    /\ \E t \in DOMAIN proc.probes :
          /\ ProbeAt(t, "cleanup") \/ ProbeAt(t, "cleanup_raising")
          /\ proc' = [proc EXCEPT !.dirs = @ \ {TempDir(t)},
                                  !.probes[t].pc = IF ProbeAt(t, "cleanup") THEN "returned"
                                                   ELSE "raised"]
    /\ UNCHANGED <<engineVars, funVars, storeVars, web>>

NextProbes ==
    \/ probe_start
    \/ probe_getcwd
    \/ probe_clone
    \/ probe_chdir
    \/ probe_exists
    \/ probe_rev
    \/ probe_restore
    \/ probe_cleanup

SpecProbes == Init /\ [][NextProbes]_vars

\* C26: when two or more get_commit_sha probes run in threads of one process,
\* then once all of them have returned the working directory of the process is
\* the one that held before any probe started, however they interleave.
C26_CwdRestoredConcurrently ==
    (/\ Len(proc.probes) >= 2
     /\ \A t \in DOMAIN proc.probes : proc.probes[t].pc = "returned")
    => proc.cwd = OrigDir

====
